---- MODULE Spec2Model ----
(***************************************************************************)
(* Cobbler buildiso / autoinstall: a model of the append-line compiler     *)
(* (AppendLineBuilder), the network-boot and standalone boot-menu          *)
(* assemblers and the AutoYaST generator.                                  *)
(*                                                                         *)
(* Python values are modelled as follows.  A string is a TLA+ string.  A   *)
(* value that may be a str, a list of str or None (a kernel option, the    *)
(* builder's system_* fields) is a tagged record, see PyStr, PyList and    *)
(* PyNone.  An ordered dict (kernel_options, interfaces) is a sequence of  *)
(* entries with distinct keys, in insertion order.  The append line is     *)
(* the sequence of its blank-separated tokens behind a lead word; Render   *)
(* gives the string the code builds.  A name that the code splits on "."   *)
(* is a sequence of one-character strings.                                 *)
(***************************************************************************)
EXTENDS Integers, Sequences, FiniteSets, TLC

\* ------------------------------------------------------------------ bounds
\* Entries of kernel_options in a blended configuration.
MaxKopts == 1
\* Interfaces of a system.
MaxIfaces == 3
\* Profiles selected for one network-boot image.
MaxProfiles == 2
\* Systems selected for one network-boot image.
MaxSystems == 1
\* Children of the distro of a standalone image.
MaxChildren == 2
\* Characters of a system name.
MaxNameLen == 3
\* Generations of an AutoYaST document, each from the output of the one before.
MaxGens == 3
\* generate_netboot_iso calls on one NetbootBuildiso object.
MaxRuns == 2

\* ------------------------------------------------------------ Python values
PyStr(s) == [t |-> "str", s |-> s, l |-> <<>>]
PyList(l) == [t |-> "list", s |-> "", l |-> l]
PyNone == [t |-> "none", s |-> "", l |-> <<>>]
\* A key that a dict does not hold (the result of a failed lookup).
PyAbsent == [t |-> "absent", s |-> "", l |-> <<>>]

RECURSIVE JoinStr(_, _)
\* sep.join(l) for a list of strings
JoinStr(l, sep) ==
    IF l = <<>> THEN ""
    ELSE IF Len(l) = 1 THEN l[1]
    ELSE l[1] \o sep \o JoinStr(Tail(l), sep)

RECURSIVE QuoteAll(_)
QuoteAll(l) == IF l = <<>> THEN <<>> ELSE <<"'" \o l[1] \o "'">> \o QuoteAll(Tail(l))

\* format(v) / f"{v}" of a Python value
PyFormat(v) ==
    CASE v.t = "str" -> v.s
      [] v.t = "list" -> "[" \o JoinStr(QuoteAll(v.l), ", ") \o "]"
      [] OTHER -> "None"

\* ------------------------------------------------------------ ordered dicts
\* key in d
DictHas(d, key) == \E i \in 1..Len(d) : d[i].k = key
\* d[key]
DictVal(d, key) == d[CHOOSE i \in 1..Len(d) : d[i].k = key].val
\* d.get(key, "")
DictGet(d, key) == IF DictHas(d, key) THEN DictVal(d, key) ELSE PyStr("")
\* del d[key]
DictDel(d, key) == SelectSeq(d, LAMBDA e : e.k # key)
DictKeys(d) == {d[i].k : i \in 1..Len(d)}

\* ------------------------------------------------------------- append line
\* One blank-separated token of an append line: key=value, or a bare flag.
Tok(k, v) == [k |-> k, v |-> v, eq |-> TRUE]
Flag(k) == [k |-> k, v |-> "", eq |-> FALSE]
TokStr(t) == IF t.eq THEN t.k \o "=" \o t.v ELSE t.k

RECURSIVE RenderToks(_)
RenderToks(toks) ==
    IF toks = <<>> THEN "" ELSE " " \o TokStr(toks[1]) \o RenderToks(Tail(toks))

\* The string the code has accumulated in append_line.
Render(line) == line.lead \o RenderToks(line.toks)


\* ---------------------------------------------------------------- variables
VARIABLES
    builder,    \* the AppendLineBuilder object (its self.* fields)
    call,       \* the last call made on the builder: operation, arguments, outcome
    target,     \* the distro and system the builder's data was blended for
    netboot,    \* the NetbootBuildiso object and the run of generate_netboot_iso on it
    standalone, \* the StandaloneBuildiso object and the run of generate_standalone_iso
    yast,       \* the AutoYaST document and the generations made from it
    autoinstallgen, \* the AutoInstallationGen object and the last call made on it
    templar,    \* the Templar object and the render calls made on it
    cheetahtemplate \* the CobblerCheetahTemplate object, the files it reads and its calls

builderVars == <<builder, call, target>>
renderVars == <<autoinstallgen, templar, cheetahtemplate>>
asmVars == <<netboot, standalone, yast, autoinstallgen, templar, cheetahtemplate>>
vars == <<builder, call, target, netboot, standalone, yast, autoinstallgen, templar,
          cheetahtemplate>>

\* An object of the model that the specification at hand does not construct.
NotBuilt == [pc |-> "not built"]

\* self.dist before generate_system has set it
NoDist == [name |-> "<None>", breed |-> "<None>", os_version |-> "<None>"]

\* self.append_line += " key=value"
Emit(self, tok) == [self EXCEPT !.append_line.toks = Append(@, tok)]

\* The blended data holds every field of every interface a second time, flattened
\* as "<field>_<interface name>"; IfaceHas / IfaceField read these keys.
IfaceHas(self, iname) ==
    \E i \in 1..Len(self.data.interfaces) : self.data.interfaces[i].name = iname
IfaceField(self, field, iname) ==
    LET ifs == self.data.interfaces
    IN  ifs[CHOOSE i \in 1..Len(ifs) : ifs[i].name = iname][field]
\* self.data.get("<field>_<iname>", "")
IfaceGet(self, field, iname) ==
    IF IfaceHas(self, iname) THEN IfaceField(self, field, iname) ELSE ""

\* if self.data["kernel_options"].get(key, "") != "":
\*     self.<field> = self.data["kernel_options"][key]
\*     del self.data["kernel_options"][key]
TakeOverride(self, key, field) ==
    LET kopts == self.data.kernel_options IN
    IF DictGet(kopts, key) # PyStr("")
    THEN [self EXCEPT ![field] = DictVal(kopts, key),
                      !.data.kernel_options = DictDel(kopts, key)]
    ELSE self

\* str.lower() on the MAC addresses of the model
Lower(s) ==
    CASE s = "AA:BB:CC:00:00:E0" -> "aa:bb:cc:00:00:e0"
      [] s = "AA:BB:CC:00:00:B0" -> "aa:bb:cc:00:00:b0"
      [] OTHER -> s

_system_int_append_line(self) ==
    IF self.dist = NoDist THEN self
    ELSE IF self.system_interface # PyNone THEN
        LET iname == PyFormat(self.system_interface)
            mac == IfaceGet(self, "mac_address", iname)
        IN  CASE self.dist.breed = "suse" ->
                   IF mac # "" THEN Emit(self, Tok("netdevice", Lower(mac)))
                   ELSE Emit(self, Tok("netdevice", iname))
              [] self.dist.breed = "redhat" ->
                   IF mac # "" THEN Emit(self, Tok("ksdevice", mac))
                   ELSE Emit(self, Tok("ksdevice", iname))
              [] self.dist.breed \in {"ubuntu", "debian"} ->
                   Emit(self, Tok("netcfg/choose_interface", iname))
              [] OTHER -> self
    ELSE self

_system_ip_append_line(self) ==
    IF self.dist = NoDist THEN self
    ELSE IF self.system_ip # PyNone THEN
        CASE self.dist.breed = "suse" -> Emit(self, Tok("hostip", PyFormat(self.system_ip)))
          [] self.dist.breed = "redhat" -> Emit(self, Tok("ip", PyFormat(self.system_ip)))
          [] self.dist.breed \in {"ubuntu", "debian"} ->
               Emit(self, Tok("netcfg/get_ipaddress", PyFormat(self.system_ip)))
          [] OTHER -> self
    ELSE self

_system_mask_append_line(self) ==
    IF self.dist = NoDist THEN self
    ELSE IF self.system_netmask # PyNone THEN
        CASE self.dist.breed \in {"suse", "redhat"} ->
               Emit(self, Tok("netmask", PyFormat(self.system_netmask)))
          [] self.dist.breed \in {"ubuntu", "debian"} ->
               Emit(self, Tok("netcfg/get_netmask", PyFormat(self.system_netmask)))
          [] OTHER -> self
    ELSE self

_system_gw_append_line(self) ==
    IF self.dist = NoDist THEN self
    ELSE IF self.system_gw # PyNone THEN
        CASE self.dist.breed \in {"suse", "redhat"} ->
               Emit(self, Tok("gateway", PyFormat(self.system_gw)))
          [] self.dist.breed \in {"ubuntu", "debian"} ->
               Emit(self, Tok("netcfg/get_gateway", PyFormat(self.system_gw)))
          [] OTHER -> self
    ELSE self

\* The key of the DNS token of a breed ("" for a breed that has none).
NameserverKey(breed) ==
    CASE breed = "suse" -> "nameserver"
      [] breed = "redhat" -> "dns"
      [] breed \in {"ubuntu", "debian"} -> "netcfg/get_nameservers"
      [] OTHER -> ""

\* Mutant: the exclude_dns flag is not consulted.
_system_dns_append_line_ignores_flag(self, exclude_dns) ==
    IF self.dist = NoDist THEN self
    ELSE IF self.system_dns # PyNone THEN
        LET nameserver_key == NameserverKey(self.dist.breed) IN
        IF nameserver_key = "" THEN self
        ELSE IF self.system_dns.t = "list" THEN
            LET joined_nameservers == JoinStr(self.system_dns.l, ",") IN
            IF joined_nameservers # ""
            THEN Emit(self, Tok(nameserver_key, joined_nameservers))
            ELSE self
        ELSE Emit(self, Tok(nameserver_key, PyFormat(self.system_dns)))
    ELSE self

_system_dns_append_line(self, exclude_dns) ==
    IF self.dist = NoDist THEN self
    ELSE IF ~exclude_dns /\ self.system_dns # PyNone THEN
        LET nameserver_key == NameserverKey(self.dist.breed) IN
        IF nameserver_key = "" THEN self
        ELSE IF self.system_dns.t = "list" THEN
            LET joined_nameservers == JoinStr(self.system_dns.l, ",") IN
            IF joined_nameservers # ""
            THEN Emit(self, Tok(nameserver_key, joined_nameservers))
            ELSE self
        ELSE Emit(self, Tok(nameserver_key, PyFormat(self.system_dns)))
    ELSE self


_generate_static_ip_boot_interface(self) ==
    IF self.dist = NoDist THEN self
    ELSE CASE self.dist.breed = "redhat" ->
                LET s1 == TakeOverride(self, "ksdevice", "system_interface") IN
                IF s1.system_interface = PyStr("bootif")
                THEN [s1 EXCEPT !.system_interface = PyNone]
                ELSE s1
           [] self.dist.breed = "suse" -> TakeOverride(self, "netdevice", "system_interface")
           [] self.dist.breed \in {"debian", "ubuntu"} ->
                TakeOverride(self, "netcfg/choose_interface", "system_interface")
           [] OTHER -> self

_generate_static_ip_boot_ip(self) ==
    IF self.dist = NoDist THEN self
    ELSE CASE self.dist.breed = "redhat" -> TakeOverride(self, "ip", "system_ip")
           [] self.dist.breed = "suse" -> TakeOverride(self, "hostip", "system_ip")
           [] self.dist.breed \in {"debian", "ubuntu"} ->
                TakeOverride(self, "netcfg/get_ipaddress", "system_ip")
           [] OTHER -> self

_generate_static_ip_boot_mask(self) ==
    IF self.dist = NoDist THEN self
    ELSE CASE self.dist.breed \in {"suse", "redhat"} ->
                TakeOverride(self, "netmask", "system_netmask")
           [] self.dist.breed \in {"debian", "ubuntu"} ->
                TakeOverride(self, "netcfg/get_netmask", "system_netmask")
           [] OTHER -> self

_generate_static_ip_boot_gateway(self) ==
    IF self.dist = NoDist THEN self
    ELSE CASE self.dist.breed \in {"suse", "redhat"} ->
                TakeOverride(self, "gateway", "system_gw")
           [] self.dist.breed \in {"debian", "ubuntu"} ->
                TakeOverride(self, "netcfg/get_gateway", "system_gw")
           [] OTHER -> self

_generate_static_ip_boot_dns(self) ==
    IF self.dist = NoDist THEN self
    ELSE CASE self.dist.breed = "redhat" -> TakeOverride(self, "dns", "system_dns")
           [] self.dist.breed = "suse" -> TakeOverride(self, "nameserver", "system_dns")
           [] self.dist.breed \in {"debian", "ubuntu"} ->
                TakeOverride(self, "netcfg/get_nameservers", "system_dns")
           [] OTHER -> self

_generate_static_ip_boot_options(self) ==
    _generate_static_ip_boot_dns(
        _generate_static_ip_boot_gateway(
            _generate_static_ip_boot_mask(
                _generate_static_ip_boot_ip(
                    _generate_static_ip_boot_interface(self)))))

\* The names, in dict order, of the interfaces found by a loop over the dict.
IfaceNames(found) == [i \in 1..Len(found) |-> found[i].name]

SlaveTypes == {"bond_slave", "bridge_slave", "bonded_bridge_slave"}

\* mgmt_ints_multi: the bonded/bridged management interfaces
MgmtIntsMulti(ifs) ==
    IfaceNames(SelectSeq(ifs, LAMBDA idata :
        idata.management /\ idata.interface_type \in {"bond", "bridge"}))

\* mgmt_ints: the single management interfaces
MgmtInts(ifs) ==
    IfaceNames(SelectSeq(ifs, LAMBDA idata :
        idata.management /\ idata.interface_type \notin ({"bond", "bridge"} \cup SlaveTypes)))

\* slave_ints: the slave interfaces of a master
SlaveInts(ifs, master) ==
    IfaceNames(SelectSeq(ifs, LAMBDA idata :
        idata.interface_type \in SlaveTypes /\ idata.interface_master = master))

InSeq(x, s) == \E i \in 1..Len(s) : s[i] = x

\* Mutant: the first slave found is taken, eth0 is not preferred.
_adjust_interface_config_first_slave(self) ==
    IF self.system_interface = PyNone THEN
        LET ifs == self.data.interfaces
            mgmt_ints == MgmtInts(ifs)
            mgmt_ints_multi == MgmtIntsMulti(ifs)
            s1 == IF Len(mgmt_ints_multi) = 1 /\ Len(mgmt_ints) = 0 THEN
                      LET slave_ints == SlaveInts(ifs, mgmt_ints_multi[1]) IN
                      IF slave_ints = <<>>
                      THEN [self EXCEPT !.exc = "IndexError"]
                      ELSE LET iname == slave_ints[1]
                               master == IfaceField(self, "interface_master", iname)
                           IN  [self EXCEPT
                                  !.system_interface = PyStr(iname),
                                  !.system_ip = PyStr(IfaceField(self, "ip_address", master)),
                                  !.system_netmask = PyStr(IfaceField(self, "netmask", master))]
                  ELSE self
        IN  IF s1.exc = "" /\ Len(mgmt_ints) = 1 /\ Len(mgmt_ints_multi) = 0
            THEN [s1 EXCEPT !.system_interface = PyStr(mgmt_ints[1])]
            ELSE s1
    ELSE self

\* Mutant: with several single management interfaces the first one is selected.
_adjust_interface_config_any_single(self) ==
    IF self.system_interface = PyNone THEN
        LET ifs == self.data.interfaces
            mgmt_ints == MgmtInts(ifs)
            mgmt_ints_multi == MgmtIntsMulti(ifs)
            s1 == IF Len(mgmt_ints_multi) = 1 /\ Len(mgmt_ints) = 0 THEN
                      LET slave_ints == SlaveInts(ifs, mgmt_ints_multi[1]) IN
                      IF slave_ints = <<>>
                      THEN [self EXCEPT !.exc = "IndexError"]
                      ELSE LET iname == IF InSeq("eth0", slave_ints) THEN "eth0"
                                        ELSE slave_ints[1]
                               master == IfaceField(self, "interface_master", iname)
                           IN  [self EXCEPT
                                  !.system_interface = PyStr(iname),
                                  !.system_ip = PyStr(IfaceField(self, "ip_address", master)),
                                  !.system_netmask = PyStr(IfaceField(self, "netmask", master))]
                  ELSE self
        IN  IF s1.exc = "" /\ Len(mgmt_ints) >= 1 /\ Len(mgmt_ints_multi) = 0
            THEN [s1 EXCEPT !.system_interface = PyStr(mgmt_ints[1])]
            ELSE s1
    ELSE self

_adjust_interface_config(self) ==
    IF self.system_interface = PyNone THEN
        LET ifs == self.data.interfaces
            mgmt_ints == MgmtInts(ifs)
            mgmt_ints_multi == MgmtIntsMulti(ifs)
            s1 == IF Len(mgmt_ints_multi) = 1 /\ Len(mgmt_ints) = 0 THEN
                      LET slave_ints == SlaveInts(ifs, mgmt_ints_multi[1]) IN
                      IF slave_ints = <<>>
                      THEN [self EXCEPT !.exc = "IndexError"]   \* slave_ints[0]
                      ELSE LET iname == IF InSeq("eth0", slave_ints) THEN "eth0"
                                        ELSE slave_ints[1]
                               master == IfaceField(self, "interface_master", iname)
                           IN  [self EXCEPT
                                  !.system_interface = PyStr(iname),
                                  !.system_ip = PyStr(IfaceField(self, "ip_address", master)),
                                  !.system_netmask = PyStr(IfaceField(self, "netmask", master))]
                  ELSE self
        IN  IF s1.exc = "" /\ Len(mgmt_ints) = 1 /\ Len(mgmt_ints_multi) = 0
            THEN [s1 EXCEPT !.system_interface = PyStr(mgmt_ints[1])]
            ELSE s1
    ELSE self

_get_tcp_ip_config(self) ==
    LET s1 == IF self.system_ip = PyNone /\ self.system_interface # PyNone
                 /\ IfaceGet(self, "ip_address", PyFormat(self.system_interface)) # ""
              THEN [self EXCEPT !.system_ip =
                      PyStr(IfaceField(self, "ip_address", PyFormat(self.system_interface)))]
              ELSE self
        s2 == IF s1.system_netmask = PyNone /\ s1.system_interface # PyNone
                 /\ IfaceGet(s1, "netmask", PyFormat(s1.system_interface)) # ""
              THEN [s1 EXCEPT !.system_netmask =
                      PyStr(IfaceField(s1, "netmask", PyFormat(s1.system_interface)))]
              ELSE s1
        s3 == IF s2.system_gw = PyNone /\ s2.data.gateway # ""
              THEN [s2 EXCEPT !.system_gw = PyStr(s2.data.gateway)]
              ELSE s2
    IN  IF s3.system_dns = PyNone THEN
            \* self.data.get("name_servers") is None for a missing key, and None != ""
            IF s3.data.name_servers = PyAbsent THEN [s3 EXCEPT !.exc = "KeyError"]
            ELSE IF s3.data.name_servers # PyStr("")
            THEN [s3 EXCEPT !.system_dns = s3.data.name_servers]
            ELSE s3
        ELSE s3


\* ------------------------------------------------------------- dotted names
\* A name the code splits is a sequence of one-character strings.
HasDot(s) == \E i \in 1..Len(s) : s[i] = "."
FirstDot(s) == CHOOSE i \in 1..Len(s) : s[i] = "." /\ \A j \in 1..(i - 1) : s[j] # "."

\* Mutant: the name is not split.
SplitDot_whole(s) == <<s>>

RECURSIVE SplitDot(_)
\* s.split(".")
SplitDot(s) ==
    IF ~HasDot(s) THEN <<s>>
    ELSE <<SubSeq(s, 1, FirstDot(s) - 1)>> \o SplitDot(SubSeq(s, FirstDot(s) + 1, Len(s)))

RECURSIVE JoinDot(_)
\* ".".join(labels)
JoinDot(labels) ==
    IF labels = <<>> THEN <<>>
    ELSE IF Len(labels) = 1 THEN labels[1]
    ELSE labels[1] \o <<".">> \o JoinDot(Tail(labels))

RECURSIVE StrOf(_)
\* The string that a sequence of characters spells.
StrOf(chars) == IF chars = <<>> THEN "" ELSE chars[1] \o StrOf(Tail(chars))

\* ------------------------------------------------- breed parts of the line
\* Mutant: rhel6 is not among the versions that take ks=.
_generate_append_redhat_no_rhel6(self) ==
    LET s1 == IF self.data.proxy # ""
              THEN Emit(Emit(self, Tok("proxy", self.data.proxy)),
                        Tok("http_proxy", self.data.proxy))
              ELSE self
    IN  IF self.dist # NoDist /\ self.dist.os_version \in {"rhel4", "rhel5", "fedora16"}
        THEN Emit(s1, Tok("ks", self.data.autoinstall))
        ELSE Emit(s1, Tok("inst.ks", self.data.autoinstall))

_generate_append_redhat(self) ==
    LET s1 == IF self.data.proxy # ""
              THEN Emit(Emit(self, Tok("proxy", self.data.proxy)),
                        Tok("http_proxy", self.data.proxy))
              ELSE self
    IN  IF self.dist # NoDist /\ self.dist.os_version \in {"rhel4", "rhel5", "rhel6", "fedora16"}
        THEN Emit(s1, Tok("ks", self.data.autoinstall))
        ELSE Emit(s1, Tok("inst.ks", self.data.autoinstall))

_generate_append_debian(self, system) ==
    IF self.dist = NoDist THEN self
    ELSE
        LET s1 == Emit(Emit(Emit(self, Tok("auto-install/enable", "true")),
                            Tok("url", self.data.autoinstall)),
                       Tok("netcfg/disable_autoconfig", "true"))
            s2 == IF self.data.proxy # "" THEN Emit(s1, Tok("mirror/http/proxy", self.data.proxy))
                  ELSE s1
            src == IF system.hostname # <<>> THEN system.hostname ELSE system.name
            my_hostname == SplitDot(src)[1]
            _domain == Tail(SplitDot(src))
            my_domain == IF _domain # <<>> THEN StrOf(JoinDot(_domain)) ELSE "local.lan"
        IN  Emit(Emit(Emit(s2, Tok("hostname", StrOf(my_hostname))),
                      Tok("domain", my_domain)),
                 Tok("suite", self.dist.os_version))

_generate_append_suse(self, scheme) ==
    IF self.dist = NoDist THEN self
    ELSE
        LET s1 == IF self.data.proxy # "" THEN Emit(self, Tok("proxy", self.data.proxy))
                  ELSE self
            s2 == IF DictGet(s1.data.kernel_options, "install") # PyStr("")
                  THEN [Emit(s1, Tok("install",
                                     PyFormat(DictVal(s1.data.kernel_options, "install"))))
                          EXCEPT !.data.kernel_options = DictDel(@, "install")]
                  ELSE Emit(s1, Tok("install",
                            scheme \o "://" \o self.data.server \o ":" \o self.data.http_port
                                   \o "/cblr/links/" \o self.dist.name))
        IN  IF DictGet(s2.data.kernel_options, "autoyast") # PyStr("")
            THEN [Emit(s2, Tok("autoyast",
                               PyFormat(DictVal(s2.data.kernel_options, "autoyast"))))
                    EXCEPT !.data.kernel_options = DictDel(@, "autoyast")]
            ELSE Emit(s2, Tok("autoyast", self.data.autoinstall))

RECURSIVE add_remaining_kopts(_)
\* The remaining kernel options as tokens: a bare flag for an option without a
\* value, key=value for a string, one key=value per element for a list.
add_remaining_kopts(kopts) ==
    IF kopts = <<>> THEN <<>>
    ELSE LET option == kopts[1].k
             args == kopts[1].val
             toks == CASE args.t = "none" -> <<Flag(option)>>
                       [] args.t = "list" -> [i \in 1..Len(args.l) |-> Tok(option, args.l[i])]
                       [] OTHER -> <<Tok(option, args.s)>>
         IN  toks \o add_remaining_kopts(Tail(kopts))

\* self.append_line += buildiso.add_remaining_kopts(self.data["kernel_options"])
AppendRemaining(self) ==
    [self EXCEPT !.append_line.toks = @ \o add_remaining_kopts(self.data.kernel_options)]

\* generate_system from the _system_*_append_line calls on; self is the builder
\* _get_tcp_ip_config left.  A method that raised ends the call: nothing after it runs.
generate_system_lines(self, exclude_dns) ==
    IF self.exc # "" THEN self
    ELSE AppendRemaining(
             _system_dns_append_line(
                 _system_gw_append_line(
                     _system_mask_append_line(
                         _system_ip_append_line(
                             _system_int_append_line(self)))),
                 exclude_dns))

\* generate_system from _get_tcp_ip_config on; self is the builder
\* _adjust_interface_config left.
generate_system_config(self, exclude_dns) ==
    IF self.exc # "" THEN self
    ELSE generate_system_lines(_get_tcp_ip_config(self), exclude_dns)

\* generate_system up to the breed part of the line
generate_system_breed(self, dist, system, scheme) ==
    CASE dist.breed = "suse" -> _generate_append_suse(self, scheme)
      [] dist.breed = "redhat" -> _generate_append_redhat(self)
      [] dist.breed \in {"ubuntu", "debian"} -> _generate_append_debian(self, system)
      [] OTHER -> self

generate_system(self, dist, system, exclude_dns, scheme) ==
    generate_system_config(
        _adjust_interface_config(
            _generate_static_ip_boot_options(
                generate_system_breed(
                    [self EXCEPT !.dist = dist,
                                 !.append_line =
                                     [lead |-> "  APPEND",
                                      toks |-> <<Tok("initrd", self.distro_name \o ".img")>>]],
                    dist, system, scheme))),
        exclude_dns)

generate_profile(self, distro_breed, os_version, protocol) ==
    LET s0 == [self EXCEPT !.append_line = [lead |-> " append",
                                            toks |-> <<Tok("initrd", self.distro_name \o ".img")>>]]
        kopts == s0.data.kernel_options
        s1 == CASE distro_breed = "suse" ->
                    LET a == IF s0.data.proxy # "" THEN Emit(s0, Tok("proxy", s0.data.proxy))
                             ELSE s0
                        b == IF DictGet(kopts, "install") # PyStr("")
                             THEN LET install_options == DictVal(kopts, "install") IN
                                  [(IF install_options.t = "list"
                                    THEN Emit(a, Tok("install", install_options.l[1]))
                                    ELSE a)
                                     EXCEPT !.data.kernel_options = DictDel(@, "install")]
                             ELSE Emit(a, Tok("install",
                                       protocol \o "://" \o s0.data.server \o ":"
                                                \o s0.data.http_port \o "/cblr/links/"
                                                \o s0.distro_name))
                    IN  IF DictGet(b.data.kernel_options, "autoyast") # PyStr("")
                        THEN [Emit(b, Tok("autoyast",
                                          PyFormat(DictVal(b.data.kernel_options, "autoyast"))))
                                EXCEPT !.data.kernel_options = DictDel(@, "autoyast")]
                        ELSE Emit(b, Tok("autoyast", s0.data.autoinstall))
                [] distro_breed = "redhat" ->
                    LET a == IF s0.data.proxy # ""
                             THEN Emit(Emit(s0, Tok("proxy", s0.data.proxy)),
                                       Tok("http_proxy", s0.data.proxy))
                             ELSE s0
                    IN  IF os_version \in {"rhel4", "rhel5", "rhel6", "fedora16"}
                        THEN Emit(a, Tok("ks", s0.data.autoinstall))
                        ELSE Emit(a, Tok("inst.ks", s0.data.autoinstall))
                [] distro_breed \in {"ubuntu", "debian"} ->
                    LET a == Emit(Emit(s0, Tok("auto-install/enable", "true")),
                                  Tok("url", s0.data.autoinstall))
                    IN  IF s0.data.proxy # ""
                        THEN Emit(a, Tok("mirror/http/proxy", s0.data.proxy))
                        ELSE a
                [] OTHER -> s0
    IN  AppendRemaining(s1)


\* ------------------------------------------------- inputs of the builder
\* Distros of the model: one per breed.
Distro(name, breed, os_version) == [name |-> name, breed |-> breed, os_version |-> os_version]
Dists ==
    { Distro("d-rhel9", "redhat", "rhel9"),
      Distro("d-sles", "suse", "sles15generic"), Distro("d-deb", "debian", "bookworm"),
      Distro("d-ubu", "ubuntu", "jammy"), Distro("d-gen", "generic", "generic26") }

\* The override keys of a breed, as the _generate_static_ip_boot_* methods name them.
OverrideKey(breed, field) ==
    CASE breed = "redhat" ->
           (CASE field = "interface" -> "ksdevice" [] field = "ip" -> "ip"
              [] field = "netmask" -> "netmask" [] field = "gateway" -> "gateway"
              [] OTHER -> "dns")
      [] breed = "suse" ->
           (CASE field = "interface" -> "netdevice" [] field = "ip" -> "hostip"
              [] field = "netmask" -> "netmask" [] field = "gateway" -> "gateway"
              [] OTHER -> "nameserver")
      [] OTHER ->
           (CASE field = "interface" -> "netcfg/choose_interface"
              [] field = "ip" -> "netcfg/get_ipaddress"
              [] field = "netmask" -> "netcfg/get_netmask"
              [] field = "gateway" -> "netcfg/get_gateway"
              [] OTHER -> "netcfg/get_nameservers")

DnsKeys == {"dns", "nameserver", "netcfg/get_nameservers"}

\* The keys kernel_options may hold for a distro of a breed, in insertion order:
\* the breed's own keys, the DNS key of another breed and an option no step consumes.
KoptKeyOrder(breed) ==
    CASE breed = "redhat" ->
           <<"ksdevice", "ip", "netmask", "gateway", "dns", "nameserver", "quiet">>
      [] breed = "suse" ->
           <<"netdevice", "hostip", "netmask", "gateway", "nameserver", "dns", "quiet",
             "install", "autoyast">>
      [] breed \in {"debian", "ubuntu"} ->
           <<"netcfg/choose_interface", "netcfg/get_ipaddress", "netcfg/get_netmask",
             "netcfg/get_gateway", "netcfg/get_nameservers", "dns", "quiet">>
      [] OTHER -> <<"ip", "dns", "quiet">>

\* The values a kernel option may have.
KoptVals(key) ==
    CASE key \in {"ksdevice", "netdevice", "netcfg/choose_interface"} ->
           {PyStr("eth1"), PyStr("bootif"), PyStr("")}
      [] key \in {"ip", "hostip", "netcfg/get_ipaddress"} -> {PyStr("192.168.9.9"), PyStr("")}
      [] key \in {"netmask", "netcfg/get_netmask"} -> {PyStr("255.255.0.0"), PyStr("")}
      [] key \in {"gateway", "netcfg/get_gateway"} -> {PyStr("192.168.9.1"), PyStr("")}
      [] key \in DnsKeys -> {PyStr("9.9.9.9"), PyStr(""), PyList(<<"9.9.9.9", "9.9.9.10">>)}
      [] key = "install" -> {PyStr("nfs://inst/sles"), PyList(<<"nfs://inst/sles">>)}
      [] key = "autoyast" -> {PyStr("nfs://inst/ay.xml")}
      [] OTHER -> {PyNone}

AllKoptVals ==
    UNION {KoptVals(k) : k \in {"ksdevice", "ip", "netmask", "gateway", "dns", "install",
                                "autoyast", "quiet"}}

RECURSIVE SortedSeq(_)
\* The elements of a set of numbers in increasing order.
SortedSeq(S) ==
    IF S = {} THEN <<>>
    ELSE LET m == CHOOSE x \in S : \A y \in S : x <= y IN <<m>> \o SortedSeq(S \ {m})

\* Every kernel_options dict of at most MaxKopts entries over the keys of a breed.
KoptDicts(breed) ==
    LET order == KoptKeyOrder(breed)
        picks == {S \in SUBSET (1..Len(order)) : Cardinality(S) <= MaxKopts}
    IN  UNION { { [i \in 1..Cardinality(S) |->
                      [k |-> order[SortedSeq(S)[i]], val |-> f[SortedSeq(S)[i]]]]
                  : f \in {g \in [S -> AllKoptVals] : \A x \in S : g[x] \in KoptVals(order[x])} }
                : S \in picks }

\* Interfaces of the model.  The address fields of an interface are fixed by its name.
IfNames == {"bond0", "eth0", "eth1"}
Iface(name, type, management, master) ==
    [name |-> name, interface_type |-> type, management |-> management,
     interface_master |-> master,
     ip_address |-> CASE name = "bond0" -> "10.0.0.10" [] name = "eth0" -> "10.0.0.20"
                      [] OTHER -> "",
     netmask |-> CASE name = "bond0" -> "255.255.255.0" [] name = "eth0" -> "255.255.255.128"
                   [] OTHER -> "",
     mac_address |-> CASE name = "bond0" -> "AA:BB:CC:00:00:B0"
                       [] name = "eth0" -> "AA:BB:CC:00:00:E0" [] OTHER -> ""]

\* What an interface of a given name may be.
IfaceChoices(name) ==
    CASE name = "bond0" ->
           {Iface(name, "bond", TRUE, ""), Iface(name, "bridge", TRUE, "")}
      [] name = "eth0" ->
           {Iface(name, "na", TRUE, ""), Iface(name, "bond_slave", FALSE, "bond0")}
      [] OTHER ->
           {Iface(name, "na", TRUE, ""), Iface(name, "bond_slave", FALSE, "bond0"),
            Iface(name, "bridge_slave", TRUE, "bond1")}

AllIfaces == UNION {IfaceChoices(n) : n \in IfNames}

\* Every interfaces dict of at most MaxIfaces entries, in every insertion order.
IfaceDicts ==
    UNION { { ifs \in [1..n -> AllIfaces] :
                /\ \A i, j \in 1..n : i # j => ifs[i].name # ifs[j].name }
            : n \in 0..(IF MaxIfaces < Cardinality(IfNames) THEN MaxIfaces
                        ELSE Cardinality(IfNames)) }

\* The characters of a string of the model.
Chars(str) ==
    CASE str = "bare" -> <<"b", "a", "r", "e">>
      [] str = "host.sub.example.com" ->
           <<"h", "o", "s", "t", ".", "s", "u", "b", ".",
             "e", "x", "a", "m", "p", "l", "e", ".", "c", "o", "m">>
      [] str = "s1" -> <<"s", "1">>
      [] str = "s2" -> <<"s", "2">>
      [] str = "s3" -> <<"s", "3">>
      [] str = "s4" -> <<"s", "4">>
      [] str = "sample.ks" -> <<"s", "a", "m", "p", "l", "e", ".", "k", "s">>
      [] str = "http://m/p.ks" ->
           <<"h", "t", "t", "p", ":", "/", "/", "m", "/", "p", ".", "k", "s">>
      [] OTHER -> <<>>

\* The blended data of a system of distro dist.
SystemDatas(dist) ==
    { [kernel_options |-> kopts, interfaces |-> ifs, gateway |-> gw, name_servers |-> ns,
       proxy |-> "", server |-> "10.0.0.1", http_port |-> "80",
       autoinstall |-> "http://10.0.0.1:80/cblr/svc/op/autoinstall/system/s1"]
      : kopts \in KoptDicts(dist.breed), ifs \in IfaceDicts,
        gw \in {"", "10.0.0.254"},
        ns \in {PyList(<<>>), PyList(<<"10.0.0.2", "10.0.0.3">>)} }

\* AppendLineBuilder.__init__
NewBuilder(distro_name, data) ==
    [append_line |-> [lead |-> "", toks |-> <<>>], data |-> data, distro_name |-> distro_name,
     dist |-> NoDist, system_interface |-> PyNone, system_ip |-> PyNone,
     system_netmask |-> PyNone, system_gw |-> PyNone, system_dns |-> PyNone, exc |-> ""]

\* The scheme is read for suse only (_generate_append_suse, generate_profile).
Schemes(breed) == IF breed = "suse" THEN {"http", "https"} ELSE {"http"}

NoCall == [op |-> "new", exclude_dns |-> FALSE, scheme |-> ""]

InitAppend ==
    \E dist \in Dists : \E data \in SystemDatas(dist) :
        /\ target = [dist |-> dist, data |-> data,
                     system |-> [name |-> Chars("host.sub.example.com"), hostname |-> <<>>]]
        /\ builder = NewBuilder("1", data)
        /\ call = NoCall
        /\ netboot = NotBuilt /\ standalone = NotBuilt /\ yast = NotBuilt
    /\ autoinstallgen = NotBuilt /\ templar = NotBuilt /\ cheetahtemplate = NotBuilt

\* generate_system(dist, system, exclude_dns, scheme) on a fresh builder
GenerateSystem ==
    /\ call.op = "new"
    /\ \E exclude_dns \in BOOLEAN, scheme \in Schemes(target.dist.breed) :
        /\ builder' = generate_system(builder, target.dist, target.system, exclude_dns, scheme)
        /\ call' = [op |-> "generate_system", exclude_dns |-> exclude_dns, scheme |-> scheme]
    /\ UNCHANGED <<target, asmVars>>

\* generate_profile(distro_breed, os_version, protocol) on a fresh builder
GenerateProfile ==
    /\ call.op = "new"
    /\ \E protocol \in Schemes(target.dist.breed) :
        /\ builder' = generate_profile(builder, target.dist.breed, target.dist.os_version,
                                       protocol)
        /\ call' = [op |-> "generate_profile", exclude_dns |-> FALSE, scheme |-> protocol]
    /\ UNCHANGED <<target, asmVars>>

NextAppend == GenerateSystem \/ GenerateProfile

SpecAppend == InitAppend /\ [][NextAppend]_vars


\* ------------------------------------------- claims on the append-line compiler
StaticBreeds == {"redhat", "suse", "debian", "ubuntu"}

\* generate_system has returned its append line (no exception).
SystemLineReturned == call.op = "generate_system" /\ builder.exc = ""

\* The tokens of the returned line, and those of them under a key.
LineToks == builder.append_line.toks
ToksWithKey(key) == SelectSeq(LineToks, LAMBDA t : t.k = key)

\* The kernel_options the builder was constructed with.
KoptsIn == target.data.kernel_options

\* kernel_options holds a non-empty override for a field of the distro's breed.
HasOverride(field) ==
    DictGet(KoptsIn, OverrideKey(target.dist.breed, field)) # PyStr("")
OverrideOf(field) == DictVal(KoptsIn, OverrideKey(target.dist.breed, field))

\* The value a token shows for a str or a list of str (comma-joined).
ShownValue(v) == IF v.t = "list" THEN JoinStr(v.l, ",") ELSE PyFormat(v)

\* C1: in generate_system, for each breed with static network handling and each of
\* ip, netmask, gateway and dns, a non-empty kernel_options override under the breed's
\* key is the value of the emitted token (also when the interface was auto-detected
\* through a bonded/bridged management interface) and the key appears exactly once in
\* the line, so not again among the remaining options.  (DNS: unless exclude_dns.)
C1_OverrideWins ==
    (SystemLineReturned /\ target.dist.breed \in StaticBreeds) =>
        \A field \in {"ip", "netmask", "gateway", "dns"} :
            (HasOverride(field) /\ (field = "dns" => ~call.exclude_dns)) =>
                ToksWithKey(OverrideKey(target.dist.breed, field))
                    = <<Tok(OverrideKey(target.dist.breed, field),
                            ShownValue(OverrideOf(field)))>>

\* C2 as claimed: with exclude_dns the returned line holds no token under any of the
\* DNS keys, whatever kernel_options and name_servers hold.
C2_NoDnsTokenAtAll ==
    (SystemLineReturned /\ call.exclude_dns) =>
        \A i \in 1..Len(LineToks) : LineToks[i].k \notin DnsKeys

\* C2 (amended): with exclude_dns, generate_system emits no DNS token of its own.  A
\* token under a DNS key is in the line only as a remaining kernel option that the DNS
\* step did not consume: its key is in kernel_options, it shows that option's value,
\* and the key is not the breed's own DNS key unless the option is the empty string.
C2_ExcludeDnsEmitsNoDns ==
    (SystemLineReturned /\ call.exclude_dns) =>
        \A i \in 1..Len(LineToks) :
            LineToks[i].k \in DnsKeys =>
                /\ DictHas(KoptsIn, LineToks[i].k)
                /\ InSeq(LineToks[i],
                         add_remaining_kopts(<<[k |-> LineToks[i].k,
                                                val |-> DictVal(KoptsIn, LineToks[i].k)]>>))
                /\ LineToks[i].k = NameserverKey(target.dist.breed)
                       => DictVal(KoptsIn, LineToks[i].k) = PyStr("")

\* C2 witness: exclude_dns with both a DNS override and name_servers set, and the
\* returned line free of DNS tokens.
C2_Witness ==
    /\ SystemLineReturned /\ call.exclude_dns
    /\ target.dist.breed \in StaticBreeds
    /\ HasOverride("dns")
    /\ target.data.name_servers = PyList(<<"10.0.0.2", "10.0.0.3">>)
    /\ \A i \in 1..Len(LineToks) : LineToks[i].k \notin DnsKeys


\* The interfaces dict of the blended data, and the positions in it of the management
\* bonds/bridges, of the single management interfaces and of the slaves of a master.
Ifs == target.data.interfaces
MultiAt == {i \in 1..Len(Ifs) : Ifs[i].management /\ Ifs[i].interface_type \in {"bond", "bridge"}}
SingleAt ==
    {i \in 1..Len(Ifs) :
        /\ Ifs[i].management
        /\ Ifs[i].interface_type \notin
              {"bond", "bridge", "bond_slave", "bridge_slave", "bonded_bridge_slave"}}
SlavesAt(master) ==
    {i \in 1..Len(Ifs) :
        /\ Ifs[i].interface_type \in {"bond_slave", "bridge_slave", "bonded_bridge_slave"}
        /\ Ifs[i].interface_master = master}

\* No interface override reaches auto-detection: kernel_options holds no non-empty
\* value under the breed's interface key (a redhat ksdevice=bootif counts as unset).
NoInterfaceOverride ==
    \/ target.dist.breed \notin StaticBreeds
    \/ ~HasOverride("interface")
    \/ target.dist.breed = "redhat" /\ OverrideOf("interface") = PyStr("bootif")

\* C3: management-interface auto-detection without an interface override.  With one
\* management bond/bridge and no single management interface, the selected interface
\* is the slave eth0 when eth0 is a slave of it, else its first slave in dict order,
\* and ip and netmask are the master's; with one single management interface and no
\* management bond/bridge, that interface is selected.
C3_ManagementInterfaceDetection ==
    (SystemLineReturned /\ NoInterfaceOverride) =>
        /\ (Cardinality(MultiAt) = 1 /\ SingleAt = {}) =>
              LET m == CHOOSE i \in MultiAt : TRUE
                  slaves == SlavesAt(Ifs[m].name)
                  first == CHOOSE i \in slaves : \A j \in slaves : i <= j
              IN  slaves # {} =>
                    /\ builder.system_interface =
                          IF \E i \in slaves : Ifs[i].name = "eth0" THEN PyStr("eth0")
                          ELSE PyStr(Ifs[first].name)
                    /\ builder.system_ip = PyStr(Ifs[m].ip_address)
                    /\ builder.system_netmask = PyStr(Ifs[m].netmask)
        /\ (Cardinality(SingleAt) = 1 /\ MultiAt = {}) =>
              builder.system_interface = PyStr(Ifs[CHOOSE i \in SingleAt : TRUE].name)

\* C3 witness: a management bond whose slaves are eth1 then eth0 in dict order; eth0
\* is selected, with the bond's address rather than eth0's own.
C3_Witness ==
    /\ SystemLineReturned /\ NoInterfaceOverride
    /\ Cardinality(MultiAt) = 1 /\ SingleAt = {}
    /\ \E i, j \in SlavesAt(Ifs[CHOOSE m \in MultiAt : TRUE].name) :
          i < j /\ Ifs[i].name = "eth1" /\ Ifs[j].name = "eth0"
    /\ builder.system_interface = PyStr("eth0")
    /\ builder.system_ip = PyStr("10.0.0.10")

\* Auto-detection finds something else than one candidate of one kind and none of the
\* other.
NoSingleCandidate ==
    ~ \/ Cardinality(MultiAt) = 1 /\ SingleAt = {}
      \/ Cardinality(SingleAt) = 1 /\ MultiAt = {}

StaticFields == {"interface", "ip", "netmask", "gateway", "dns"}

TokensOf(field, auto) ==
    LET key == OverrideKey(target.dist.breed, field) IN
    IF HasOverride(field)
    THEN IF field = "interface" /\ target.dist.breed = "redhat"
            /\ OverrideOf(field) = PyStr("bootif")
         THEN <<>>
         ELSE <<Tok(key, ShownValue(OverrideOf(field)))>>
    ELSE (IF auto # "" THEN <<Tok(key, auto)>> ELSE <<>>)
         \o (IF DictHas(KoptsIn, key) THEN <<Tok(key, "")>> ELSE <<>>)

LowerAlpha ==
    {"a", "b", "c", "d", "e", "f", "g", "h", "i", "j", "k", "l", "m",
     "n", "o", "p", "q", "r", "s", "t", "u", "v", "w", "x", "y", "z"}

\* re.match(r"[a-z]+://.*", s) on a string given by its characters
ReMatchUri(s) ==
    \E n \in 1..Len(s) :
        /\ \A i \in 1..n : s[i] \in LowerAlpha
        /\ Len(s) >= n + 3
        /\ SubSeq(s, n + 1, n + 3) = <<":", "/", "/">>

\* Mutant: the distro keeps its own name as identifier.
make_shorter_keeps_name(self, distname) ==
    IF DictHas(self.distmap, distname) THEN self
    ELSE [self EXCEPT !.distctr = @ + 1,
                      !.distmap = Append(@, [k |-> distname, val |-> distname])]

\* make_shorter with a counter that moves on every call, also for a name that
\* has its identifier.
make_shorter_counts_calls(self, distname) ==
    IF DictHas(self.distmap, distname) THEN [self EXCEPT !.distctr = @ + 1]
    ELSE [self EXCEPT !.distctr = @ + 1,
                      !.distmap = Append(@, [k |-> distname,
                                             val |-> ToString(self.distctr + 1)])]

\* NetbootBuildiso.make_shorter: the object after the call; the identifier the call
\* returns is then distmap[distname].
make_shorter(self, distname) ==
    IF DictHas(self.distmap, distname) THEN self
    ELSE [self EXCEPT !.distctr = @ + 1,
                      !.distmap = Append(@, [k |-> distname,
                                             val |-> ToString(self.distctr + 1)])]

\* utils.kopts_overwrite(kopts, server, breed): SUSE takes textmode=1 for text.
kopts_overwrite(kopts, distro_breed) ==
    IF distro_breed = "suse" THEN
        IF DictHas(kopts, "textmode") THEN DictDel(kopts, "text")
        ELSE IF DictHas(kopts, "text")
        THEN Append(DictDel(kopts, "text"), [k |-> "textmode", val |-> PyList(<<"1">>)])
        ELSE kopts
    ELSE kopts

\* data["autoinstall"] after the check for a full URI; what is "profile" or "system".
AutoinstallUri(data, autoinstall_scheme, what, name) ==
    IF ReMatchUri(data.autoinstall) THEN StrOf(data.autoinstall)
    ELSE autoinstall_scheme \o "://" \o data.server \o ":" \o data.http_port
             \o "/cblr/svc/op/autoinstall/" \o what \o "/" \o name

\* The distros of the network-boot model.
NbDistros == {Distro("d1", "redhat", "rhel9"), Distro("d2", "suse", "sles15generic")}
NbDist(name) == CHOOSE d \in NbDistros : d.name = name

\* Mutant: the kernel line comes first.
StanzaHead_kernel_first(label, kernel_word, distname) ==
    <<"", "  " \o kernel_word \o " " \o distname \o ".krn",
      "LABEL " \o label, "  MENU LABEL " \o label>>

\* The four stanza lines in front of an append line.
StanzaHead(label, kernel_word, distname) ==
    <<"", "LABEL " \o label, "  MENU LABEL " \o label,
      "  " \o kernel_word \o " " \o distname \o ".krn">>

\* _generate_netboot_profile from copy_boot_files on; self is the object
\* make_shorter left.
netboot_profile_stanza(self, profile, dist) ==
    [self EXCEPT
       !.copied = Append(@, [dist |-> dist.name, distname |-> DictVal(self.distmap, dist.name)]),
       !.cfglines = @ \o StanzaHead(profile.name, "kernel", DictVal(self.distmap, dist.name))
           \o <<Render(generate_profile(
                    NewBuilder(DictVal(self.distmap, dist.name),
                               [profile.data EXCEPT
                                  !.kernel_options = kopts_overwrite(@, dist.breed),
                                  !.autoinstall =
                                      AutoinstallUri(profile.data,
                                                     self.settings.autoinstall_scheme,
                                                     "profile", profile.name)]),
                    dist.breed, dist.os_version, "http").append_line)>>]

_generate_netboot_profile(self, profile) ==
    IF profile.distro = "" THEN [self EXCEPT !.exc = "ValueError"]
    ELSE netboot_profile_stanza(make_shorter(self, profile.distro), profile,
                                NbDist(profile.distro))

\* The builder that _generate_netboot_system runs generate_system on.
NetbootSystemBuilder(self, system, dist, exclude_dns) ==
    generate_system(
        NewBuilder(DictVal(self.distmap, dist.name),
                   [system.data EXCEPT
                      !.autoinstall = AutoinstallUri(system.data,
                                                     self.settings.autoinstall_scheme,
                                                     "system", StrOf(system.name))]),
        dist, [name |-> system.name, hostname |-> system.hostname],
        exclude_dns, self.settings.autoinstall_scheme)

\* _generate_netboot_system from cfglines.append(append_line) on; made is the
\* builder after generate_system, whose exception ends the call.
netboot_system_line(self, made) ==
    IF made.exc # "" THEN [self EXCEPT !.exc = made.exc]
    ELSE [self EXCEPT !.cfglines = Append(@, Render(made.append_line))]

\* _generate_netboot_system from copy_boot_files on; self is the object
\* make_shorter left.
netboot_system_stanza(self, system, dist, exclude_dns) ==
    netboot_system_line(
        [self EXCEPT
           !.copied = Append(@, [dist |-> dist.name,
                                 distname |-> DictVal(self.distmap, dist.name)]),
           !.cfglines = @ \o StanzaHead(StrOf(system.name), "KERNEL",
                                        DictVal(self.distmap, dist.name))],
        NetbootSystemBuilder(self, system, dist, exclude_dns))

_generate_netboot_system(self, system, exclude_dns) ==
    IF system.parent.type # "profile" \/ system.parent.distro = ""
    THEN [self EXCEPT !.exc = "ValueError"]
    ELSE netboot_system_stanza(make_shorter(self, system.parent.distro), system,
                               NbDist(system.parent.distro), exclude_dns)

\* Mutant: every system the name filter found is returned.
filter_systems_keeps_all(found_systems) == found_systems

\* NetbootBuildiso.filter_systems on the systems the name filter found; the
\* parent type "none" stands for get_conceptual_parent() returning None.
filter_systems(found_systems) ==
    SelectSeq(found_systems,
              LAMBDA system : system.parent.type # "none" /\ system.parent.type = "profile")

\* ------------------------------------------- inputs of the network-boot run
\* The blended data of a profile; autoinstall is given by its characters.
ProfileData(kopts, autoinstall) ==
    [kernel_options |-> kopts, autoinstall |-> autoinstall, proxy |-> "",
     server |-> "10.0.0.1", http_port |-> "80"]

Profile(name, distro, data) == [name |-> name, distro |-> distro, data |-> data]

\* What a profile of a given name may be; "p0" has no distro.
ProfileChoices(name) ==
    CASE name = "p1" ->
           { Profile(name, "d1", ProfileData(kopts, autoinstall)) :
               kopts \in {<<>>, <<[k |-> "quiet", val |-> PyNone]>>},
               autoinstall \in {<<>>, Chars("http://m/p.ks")} }
      [] name = "p2" ->
           { Profile(name, "d2", ProfileData(kopts, Chars("sample.ks"))) :
               kopts \in {<<>>, <<[k |-> "text", val |-> PyNone]>>} }
      [] name = "p3" -> {Profile(name, "d1", ProfileData(<<>>, Chars("sample.ks")))}
      [] OTHER -> {Profile(name, "", ProfileData(<<>>, <<>>))}

AllProfiles == UNION {ProfileChoices(n) : n \in {"p0", "p1", "p2", "p3"}}

\* Every list of at most max records with distinct names.
ListsOf(records, max) ==
    UNION { { l \in [1..n -> records] : \A i, j \in 1..n : i # j => l[i].name # l[j].name }
            : n \in 0..max }

\* The blended data of a system.
NbSystemData(ifs) ==
    [kernel_options |-> <<>>, interfaces |-> ifs, gateway |-> "10.0.0.254",
     name_servers |-> PyList(<<"10.0.0.2">>), proxy |-> "", server |-> "10.0.0.1",
     http_port |-> "80", autoinstall |-> <<>>]

System(name, parent_type, distro, data) ==
    [name |-> name, hostname |-> <<>>, data |-> data,
     parent |-> [type |-> parent_type, distro |-> distro]]

\* The systems of the model: s1 under a profile of d1, with one management
\* interface or with a bond that has no slaves; s2 under an image; s3 under a
\* profile of d2; s4 without a parent.
AllSystems ==
    { System(Chars("s1"), "profile", "d1", NbSystemData(<<Iface("eth0", "na", TRUE, "")>>)),
      System(Chars("s1"), "profile", "d1", NbSystemData(<<Iface("bond0", "bond", TRUE, "")>>)),
      System(Chars("s2"), "image", "", NbSystemData(<<>>)),
      System(Chars("s3"), "profile", "d2", NbSystemData(<<>>)),
      System(Chars("s4"), "none", "", NbSystemData(<<>>)) }

\* NetbootBuildiso after construction, with the arguments of the coming run.
\* args keeps the selected profiles and the systems the name filter finds, run
\* counts the generate_netboot_iso calls on the object and writes the writes of
\* isolinux.cfg of the call.
NewNetboot(profiles, systems, exclude_dns, autoinstall_scheme) ==
    [pc |-> "new", profiles |-> profiles, systems |-> systems, exclude_dns |-> exclude_dns,
     settings |-> [autoinstall_scheme |-> autoinstall_scheme],
     distmap |-> <<>>, distctr |-> 0, copied |-> <<>>, cfglines |-> <<>>,
     isolinuxcfg |-> <<>>, exc |-> "", call |-> [op |-> "new", item |-> NotBuilt],
     args |-> [profiles |-> profiles, systems |-> systems], run |-> 1, writes |-> 0]

InitNetboot ==
    /\ \E profiles \in ListsOf(AllProfiles, MaxProfiles),
          systems \in ListsOf(AllSystems, MaxSystems),
          exclude_dns \in BOOLEAN, autoinstall_scheme \in {"http", "https"} :
          netboot = NewNetboot(profiles, systems, exclude_dns, autoinstall_scheme)
    /\ builder = NotBuilt /\ call = NoCall /\ target = NotBuilt
    /\ autoinstallgen = NotBuilt /\ templar = NotBuilt /\ cheetahtemplate = NotBuilt
    /\ standalone = NotBuilt /\ yast = NotBuilt

\* Mutant: a step that raised is skipped and the run goes on.
AfterStep_skips(made, pc) == [made EXCEPT !.pc = pc, !.exc = ""]

\* The state of the run after a step that left the object as made.
AfterStep(made, pc) == [made EXCEPT !.pc = IF made.exc # "" THEN "raised" ELSE pc]

\* generate_netboot_iso: cfglines = [self.iso_template]
NetbootBegin ==
    /\ netboot.pc = "new"
    /\ netboot' = [netboot EXCEPT !.pc = "profiles", !.cfglines = <<"<iso_template>">>,
                                  !.call = [op |-> "generate_netboot_iso", item |-> NotBuilt]]
    /\ UNCHANGED <<builderVars, renderVars, standalone, yast>>

\* generate_netboot_iso: one turn of the loop over the selected profiles
NetbootProfile ==
    /\ netboot.pc = "profiles" /\ netboot.profiles # <<>>
    /\ netboot' = AfterStep(
           _generate_netboot_profile(
               [netboot EXCEPT !.profiles = Tail(@),
                               !.call = [op |-> "_generate_netboot_profile",
                                         item |-> Head(netboot.profiles)]],
               Head(netboot.profiles)),
           "profiles")
    /\ UNCHANGED <<builderVars, renderVars, standalone, yast>>

\* generate_netboot_iso: cfglines.append("MENU SEPARATOR") and filter_systems
NetbootSeparator ==
    /\ netboot.pc = "profiles" /\ netboot.profiles = <<>>
    /\ netboot' = [netboot EXCEPT !.pc = "systems",
                                  !.cfglines = Append(@, "MENU SEPARATOR"),
                                  !.systems = filter_systems(@),
                                  !.call = [op |-> "filter_systems", item |-> NotBuilt]]
    /\ UNCHANGED <<builderVars, renderVars, standalone, yast>>

\* generate_netboot_iso: one turn of the loop over the selected systems
NetbootSystem ==
    /\ netboot.pc = "systems" /\ netboot.systems # <<>>
    /\ netboot' = AfterStep(
           _generate_netboot_system(
               [netboot EXCEPT !.systems = Tail(@),
                               !.call = [op |-> "_generate_netboot_system",
                                         item |-> Head(netboot.systems)]],
               Head(netboot.systems), netboot.exclude_dns),
           "systems")
    /\ UNCHANGED <<builderVars, renderVars, standalone, yast>>

\* generate_netboot_iso: the last two lines and the write of isolinux.cfg
NetbootWrite ==
    /\ netboot.pc = "systems" /\ netboot.systems = <<>>
    /\ netboot' = [netboot EXCEPT !.pc = "written",
                                  !.cfglines = @ \o <<"", "MENU END">>,
                                  !.isolinuxcfg = netboot.cfglines \o <<"", "MENU END">>,
                                  !.writes = @ + 1,
                                  !.call = [op |-> "write", item |-> NotBuilt]]
    /\ UNCHANGED <<builderVars, renderVars, standalone, yast>>

NextNetboot ==
    NetbootBegin \/ NetbootProfile \/ NetbootSeparator \/ NetbootSystem \/ NetbootWrite

SpecNetboot == InitNetboot /\ [][NextNetboot]_vars

\* ------------------------------------ several runs on one NetbootBuildiso
\* The profiles and systems of the runs.
RunProfiles ==
    { Profile("p1", "d1", ProfileData(<<>>, <<>>)),
      Profile("p2", "d2", ProfileData(<<>>, Chars("sample.ks"))),
      Profile("p3", "d1", ProfileData(<<>>, Chars("sample.ks"))) }
RunSystems == {System(Chars("s3"), "profile", "d2", NbSystemData(<<>>))}

InitRuns ==
    /\ \E profiles \in ListsOf(RunProfiles, MaxProfiles),
          systems \in ListsOf(RunSystems, MaxSystems) :
          netboot = NewNetboot(profiles, systems, FALSE, "http")
    /\ builder = NotBuilt /\ call = NoCall /\ target = NotBuilt
    /\ autoinstallgen = NotBuilt /\ templar = NotBuilt /\ cheetahtemplate = NotBuilt
    /\ standalone = NotBuilt /\ yast = NotBuilt

\* A later generate_netboot_iso call on the same object: the arguments and the
\* locals of the call are new, the attributes of the object (distmap, distctr)
\* and the file are what the call before left, no statement of the call or of
\* make_shorter assigns a new map or resets the counter.
NetbootAgain ==
    /\ netboot.pc \in {"written", "raised"} /\ netboot.run < MaxRuns
    /\ \E profiles \in ListsOf(RunProfiles, MaxProfiles),
          systems \in ListsOf(RunSystems, MaxSystems) :
          netboot' = [netboot EXCEPT
                        !.pc = "new", !.profiles = profiles, !.systems = systems,
                        !.args = [profiles |-> profiles, systems |-> systems],
                        !.cfglines = <<>>, !.copied = <<>>, !.exc = "", !.writes = 0,
                        !.run = @ + 1, !.call = [op |-> "new", item |-> NotBuilt]]
    /\ UNCHANGED <<builderVars, renderVars, standalone, yast>>

NextRuns == NextNetboot \/ NetbootAgain

SpecRuns == InitRuns /\ [][NextRuns]_vars


\* ------------------------------------------ claims on the network-boot run
\* The scenario: profile p1 of distro d1 (redhat, rhel9) with kernel_options={},
\* autoinstall="", server 10.0.0.1, http_port 80 and scheme http has just been
\* given its stanza by _generate_netboot_profile.
ScenarioP1 ==
    /\ netboot.call.op = "_generate_netboot_profile"
    /\ netboot.exc = ""
    /\ netboot.call.item.name = "p1"
    /\ netboot.call.item.distro = "d1"
    /\ NbDist("d1").breed = "redhat" /\ NbDist("d1").os_version = "rhel9"
    /\ netboot.call.item.data.kernel_options = <<>>
    /\ netboot.call.item.data.autoinstall = <<>>
    /\ netboot.call.item.data.server = "10.0.0.1"
    /\ netboot.call.item.data.http_port = "80"
    /\ netboot.settings.autoinstall_scheme = "http"

\* The line the last stanza ends with.
LastLine == netboot.cfglines[Len(netboot.cfglines)]

\* The distros that got boot files copied up to the first copy for distro d.
DistrosUpTo(d) ==
    LET first == CHOOSE i \in 1..Len(netboot.copied) :
                     /\ netboot.copied[i].dist = d
                     /\ \A j \in 1..(i - 1) : netboot.copied[j].dist # d
    IN  {netboot.copied[j].dist : j \in 1..first}

Basename(path) == path.base

\* d[key] = val
DictSet(d, key, val) ==
    IF DictHas(d, key)
    THEN [i \in 1..Len(d) |-> IF d[i].k = key THEN [k |-> key, val |-> val] ELSE d[i]]
    ELSE Append(d, [k |-> key, val |-> val])

\* standalone._generate_append_line_standalone: the line it returns
_generate_append_line_standalone(data, distro, descendant) ==
    [lead |-> "  APPEND",
     toks |->
       <<Tok("initrd", Basename(distro.initrd))>>
       \o (CASE distro.breed = "redhat" ->
                  IF distro.os_version \in {"rhel4", "rhel5", "rhel6", "fedora16"}
                  THEN <<Tok("ks", "cdrom:/isolinux/" \o descendant.name \o ".cfg")>>
                  ELSE <<Tok("inst.ks", "cdrom:/isolinux/" \o descendant.name \o ".cfg")>>
             [] distro.breed = "suse" ->
                  <<Tok("autoyast", "file:///isolinux/" \o descendant.name \o ".cfg"),
                    Tok("install", "cdrom:///")>>
             [] distro.breed \in {"ubuntu", "debian"} ->
                  <<Tok("auto-install/enable", "true"),
                    Tok("preseed/file", "/cdrom/isolinux/" \o descendant.name \o ".cfg")>>
             [] OTHER -> <<>>)
       \o add_remaining_kopts(IF distro.breed = "suse"
                              THEN DictDel(data.kernel_options, "install")
                              ELSE data.kernel_options)]

\* A line of an autoinstall document: the url line of a kickstart, a repo line
\* (name and baseurl), or any other line.  A baseurl under the distro mirror of
\* a distro is kept in parts: dm is that distro's name and rest what follows
\* ".../cobbler/distro_mirror/<dm>" and one optional "/".
UrlLine(text) == [t |-> "url", name |-> "", baseurl |-> text, dm |-> "", rest |-> ""]
RepoLine(name, baseurl) == [t |-> "repo", name |-> name, baseurl |-> baseurl, dm |-> "", rest |-> ""]
MirrorRepoLine(name, dm, rest) ==
    [t |-> "repo", name |-> name,
     baseurl |-> "http://10.0.0.1/cobbler/distro_mirror/" \o dm \o "/" \o rest,
     dm |-> dm, rest |-> rest]
TextLine(text) == [t |-> "text", name |-> "", baseurl |-> text, dm |-> "", rest |-> ""]

\* cdregex.sub("cdrom\n", autoinstall_data, count=1): the first url line becomes cdrom
CdregexSub(doc) ==
    IF \E i \in 1..Len(doc) : doc[i].t = "url"
    THEN [i \in 1..Len(doc) |->
            IF doc[i].t = "url" /\ \A j \in 1..(i - 1) : doc[j].t # "url"
            THEN TextLine("cdrom") ELSE doc[i]]
    ELSE doc

\* reporegex.sub(r"\1file:///mnt/source/repo_mirror/<name>", autoinstall_data):
\* without a count, every repo line of that name is rewritten
ReporegexSub(doc, name) ==
    [i \in 1..Len(doc) |->
        IF doc[i].t = "repo" /\ doc[i].name = name
        THEN RepoLine(name, "file:///mnt/source/repo_mirror/" \o name)
        ELSE doc[i]]

\* srcreporegex.sub(r"\1file:///mnt/source\2", autoinstall_data)
SrcreporegexSub(doc, distro_name) ==
    [i \in 1..Len(doc) |->
        IF doc[i].t = "repo" /\ doc[i].dm = distro_name
        THEN RepoLine(doc[i].name, "file:///mnt/source" \o doc[i].rest)
        ELSE doc[i]]

\* The text of the ValueError of a failed repository check.
RepoError(descendant, repo_name, error_message) ==
    descendant.type \o " " \o descendant.name \o " refers to repo " \o repo_name
        \o ", which " \o error_message \o "; cannot build airgapped ISO"

\* Mutant: the local mirror directory is not looked at.
RECURSIVE AirgappedRepos_no_dir_check(_, _, _, _)
AirgappedRepos_no_dir_check(acc, repos, descendant, find_repo) ==
    IF repos = <<>> THEN acc
    ELSE IF find_repo[repos[1]].found # "one"
    THEN [acc EXCEPT !.exc = "ValueError",
                     !.msg = RepoError(descendant, repos[1], "does not exist")]
    ELSE IF ~find_repo[repos[1]].mirror_locally
    THEN [acc EXCEPT !.exc = "ValueError",
                     !.msg = RepoError(descendant, repos[1],
                                       "is not configured for local mirroring")]
    ELSE AirgappedRepos_no_dir_check(
             [acc EXCEPT !.repo_names_to_copy =
                             DictSet(@, repos[1], "/var/www/cobbler/repo_mirror/" \o repos[1]),
                         !.doc = ReporegexSub(@, repos[1])],
             Tail(repos), descendant, find_repo)

\* Mutant: the local mirror directory is looked at before mirror_locally.
RECURSIVE AirgappedRepos_dir_first(_, _, _, _)
AirgappedRepos_dir_first(acc, repos, descendant, find_repo) ==
    IF repos = <<>> THEN acc
    ELSE IF find_repo[repos[1]].found # "one"
    THEN [acc EXCEPT !.exc = "ValueError",
                     !.msg = RepoError(descendant, repos[1], "does not exist")]
    ELSE IF ~find_repo[repos[1]].mirrordir_exists
    THEN [acc EXCEPT !.exc = "ValueError",
                     !.msg = RepoError(descendant, repos[1],
                                       "has a missing local mirror directory")]
    ELSE IF ~find_repo[repos[1]].mirror_locally
    THEN [acc EXCEPT !.exc = "ValueError",
                     !.msg = RepoError(descendant, repos[1],
                                       "is not configured for local mirroring")]
    ELSE AirgappedRepos_dir_first(
             [acc EXCEPT !.repo_names_to_copy =
                             DictSet(@, repos[1], "/var/www/cobbler/repo_mirror/" \o repos[1]),
                         !.doc = ReporegexSub(@, repos[1])],
             Tail(repos), descendant, find_repo)

\* _generate_autoinstall_data: the loop over data.get("repos", []) of an airgapped
\* build.  acc holds the document, repo_names_to_copy and the exception raised.
RECURSIVE AirgappedRepos(_, _, _, _)
AirgappedRepos(acc, repos, descendant, find_repo) ==
    IF repos = <<>> THEN acc
    ELSE IF find_repo[repos[1]].found # "one"
    THEN [acc EXCEPT !.exc = "ValueError",
                     !.msg = RepoError(descendant, repos[1], "does not exist")]
    ELSE IF ~find_repo[repos[1]].mirror_locally
    THEN [acc EXCEPT !.exc = "ValueError",
                     !.msg = RepoError(descendant, repos[1],
                                       "is not configured for local mirroring")]
    ELSE IF ~find_repo[repos[1]].mirrordir_exists
    THEN [acc EXCEPT !.exc = "ValueError",
                     !.msg = RepoError(descendant, repos[1],
                                       "has a missing local mirror directory")]
    ELSE AirgappedRepos(
             [acc EXCEPT !.repo_names_to_copy =
                             DictSet(@, repos[1], "/var/www/cobbler/repo_mirror/" \o repos[1]),
                         !.doc = ReporegexSub(@, repos[1])],
             Tail(repos), descendant, find_repo)

\* _generate_autoinstall_data from the split-tree rewrite on
SplitTreeRepos(acc, distro) ==
    IF acc.exc # "" THEN acc ELSE [acc EXCEPT !.doc = SrcreporegexSub(@, distro.name)]

\* _generate_autoinstall_data; generated is the document of
\* autoinstallgen.generate_autoinstall_for_profile / _for_system
_generate_autoinstall_data(self, descendant, distro, data, generated) ==
    IF self.airgapped
    THEN SplitTreeRepos(
             AirgappedRepos(
                 [doc |-> IF distro.breed = "redhat" THEN CdregexSub(generated) ELSE generated,
                  repo_names_to_copy |-> self.repo_names_to_copy, exc |-> "", msg |-> ""],
                 data.repos, descendant, self.find_repo),
             distro)
    ELSE [doc |-> IF distro.breed = "redhat" THEN CdregexSub(generated) ELSE generated,
          repo_names_to_copy |-> self.repo_names_to_copy, exc |-> "", msg |-> ""]

\* _generate_descendant up to cfglines.append(_generate_append_line_standalone(...))
descendant_stanza(self, descendant, distro) ==
    [self EXCEPT
       !.cfglines = @ \o <<"", "LABEL " \o descendant.name>>
           \o (IF descendant.type = "system" THEN <<"  MENU INDENT 4">> ELSE <<>>)
           \o <<"  MENU LABEL " \o descendant.name,
                "  KERNEL " \o Basename(distro.kernel),
                Render(_generate_append_line_standalone(
                           [descendant.data EXCEPT
                              !.kernel_options = kopts_overwrite(@, distro.breed)],
                           distro, descendant))>>]

\* Mutant: <name>.cfg is not written.
descendant_file_not_written(self, descendant, made) ==
    IF made.exc # ""
    THEN [self EXCEPT !.repo_names_to_copy = made.repo_names_to_copy,
                      !.exc = made.exc, !.msg = made.msg]
    ELSE [self EXCEPT !.repo_names_to_copy = made.repo_names_to_copy]

\* _generate_descendant from the return of _generate_autoinstall_data on: made is
\* what that call left; its exception ends the call before <name>.cfg is written.
descendant_file(self, descendant, made) ==
    IF made.exc # ""
    THEN [self EXCEPT !.repo_names_to_copy = made.repo_names_to_copy,
                      !.exc = made.exc, !.msg = made.msg]
    ELSE [self EXCEPT !.repo_names_to_copy = made.repo_names_to_copy,
                      !.io = Append(@, [op |-> "write", file |-> descendant.name \o ".cfg",
                                        content |-> made.doc])]

\* The document autoinstallgen generates for a descendant: a url line, one repo
\* line per repository of the descendant, the repo line of the install tree, and
\* for a system one more line of its first repository, for its updates.
GeneratedDoc(descendant, distro) ==
    <<UrlLine("url --url=http://10.0.0.1/cblr/links/" \o distro.name)>>
    \o [i \in 1..Len(descendant.data.repos) |->
           RepoLine(descendant.data.repos[i],
                    "http://10.0.0.1/cobbler/repo_mirror/" \o descendant.data.repos[i])]
    \o <<MirrorRepoLine("source-1", distro.name, "")>>
    \o (IF descendant.type = "system" /\ descendant.data.repos # <<>>
        THEN <<RepoLine(descendant.data.repos[1],
                        "http://10.0.0.1/cobbler/repo_mirror/" \o descendant.data.repos[1]
                            \o "/updates")>>
        ELSE <<>>)
    \o <<TextLine("%packages")>>

_generate_descendant(self, descendant, distro) ==
    descendant_file(
        descendant_stanza(self, descendant, distro), descendant,
        _generate_autoinstall_data(self, descendant, distro, descendant.data,
                                   GeneratedDoc(descendant, distro)))

\* generate_standalone_iso: the test that skips a descendant
SkipDescendant(self, descendant) ==
    /\ Len(self.profiles) > 0
    /\ \/ descendant.type = "profile" /\ ~InSeq(descendant.name, self.profiles)
       \/ descendant.type = "system" /\ ~InSeq(descendant.profile, self.profiles)

\* ---------------------------------------------- inputs of the standalone run
StDistro(name, breed, os_version) ==
    [name |-> name, breed |-> breed, os_version |-> os_version,
     kernel |-> [dir |-> "/srv/" \o name \o "/images", base |-> "vmlinuz"],
     initrd |-> [dir |-> "/srv/" \o name \o "/images", base |-> "initrd.img"]]

StDistros ==
    { StDistro("d1", "redhat", "rhel9"), StDistro("d2", "suse", "sles15generic"),
      StDistro("d3", "generic", "generic26") }

Descendant(type, name, profile, kopts, repos) ==
    [type |-> type, name |-> name, profile |-> profile,
     data |-> [kernel_options |-> kopts, repos |-> repos]]

\* What a child of the distro may be: profiles pA and pB, system sA of pA.
DescendantChoices(name) ==
    CASE name = "pA" ->
           { Descendant("profile", name, "", <<>>, repos) :
               repos \in {<<>>, <<"r1">>, <<"r1", "r2">>, <<"r2", "r1">>} }
      [] name = "pB" ->
           { Descendant("profile", name, "", <<[k |-> "text", val |-> PyNone]>>, repos) :
               repos \in {<<>>, <<"r2">>} }
      [] OTHER ->
           { Descendant("system", name, "pA",
                        <<[k |-> "install", val |-> PyStr("nfs://inst/sles")]>>, <<"r1">>) }

AllDescendants == UNION {DescendantChoices(n) : n \in {"pA", "pB", "sA"}}

\* What api.find_repo and the file system say about a repository.
Repo(found, mirror_locally, mirrordir_exists) ==
    [found |-> found, mirror_locally |-> mirror_locally, mirrordir_exists |-> mirrordir_exists]

RepoWorlds ==
    { [r \in {"r1", "r2"} |-> IF r = "r1" THEN r1 ELSE r2] :
        r1 \in {Repo("one", m, e) : m, e \in BOOLEAN}
                 \cup {Repo("none", FALSE, FALSE), Repo("list", FALSE, FALSE)},
        r2 \in {Repo("one", TRUE, e) : e \in BOOLEAN} }

\* The source argument of run and what the file system says about it: given is
\* whether --source was passed, in_mirror whether the kernel of the distro lies
\* under <webdir>/distro_mirror, exists what os.path.exists says of the source.
Source(given, in_mirror, exists) == [given |-> given, in_mirror |-> in_mirror, exists |-> exists]
GivenSource == Source(TRUE, FALSE, TRUE)

\* StandaloneBuildiso with the arguments and the surroundings of the coming run.
\* rsync is what the two kinds of rsync call will return.  child_names are the
\* names of distro.children, which the loop over children does not change.
NewStandalone(find_distro, distro, children, profiles, airgapped, find_repo, rsync) ==
    [pc |-> "new", find_distro |-> find_distro, distro |-> distro, children |-> children,
     distro_name |-> distro.name, source |-> GivenSource,
     child_names |-> [i \in 1..Len(children) |-> children[i].name],
     profiles |-> profiles, airgapped |-> airgapped, find_repo |-> find_repo,
     rsync_ok |-> rsync.repo, distro_rsync_ok |-> rsync.distro,
     cfglines |-> <<>>, repo_names_to_copy |-> <<>>, repos_left |-> <<>>,
     io |-> <<>>, processed |-> <<>>, exc |-> "", msg |-> ""]

InitStandalone ==
    /\ \/ \E distro \in StDistros, children \in ListsOf(AllDescendants, MaxChildren),
             profiles \in {<<>>, <<"pA">>}, airgapped \in BOOLEAN, find_repo \in RepoWorlds,
             r1_ok \in BOOLEAN, distro_rsync_ok \in BOOLEAN :
             standalone = NewStandalone("one", distro, children, profiles, airgapped,
                                        find_repo,
                                        [repo |-> [r \in {"r1", "r2"} |-> r = "r2" \/ r1_ok],
                                         distro |-> distro_rsync_ok])
       \/ \E find_distro \in {"none", "list"}, airgapped \in BOOLEAN :
             standalone = NewStandalone(find_distro, StDistro("d1", "redhat", "rhel9"),
                                        <<>>, <<>>, airgapped,
                                        CHOOSE w \in RepoWorlds : TRUE,
                                        [repo |-> [r \in {"r1", "r2"} |-> TRUE],
                                         distro |-> TRUE])
    /\ builder = NotBuilt /\ call = NoCall /\ target = NotBuilt
    /\ autoinstallgen = NotBuilt /\ templar = NotBuilt /\ cheetahtemplate = NotBuilt
    /\ netboot = NotBuilt /\ yast = NotBuilt

\* generate_standalone_iso up to cfglines = [self.iso_template]
StandaloneBegin ==
    /\ standalone.pc = "new"
    /\ standalone' =
         IF standalone.find_distro # "one"
         THEN [standalone EXCEPT !.pc = "raised", !.exc = "ValueError",
                                 !.msg = "Distro was not found, aborting generation of ISO-file!"]
         ELSE [standalone EXCEPT !.pc = "descendants",
                                 !.io = Append(@, [op |-> "copy_boot_files",
                                                   file |-> standalone.distro.name,
                                                   content |-> <<>>]),
                                 !.cfglines = <<"<iso_template>">>]
    /\ UNCHANGED <<builderVars, renderVars, netboot, yast>>

\* generate_standalone_iso: one turn of the loop over distro.children
StandaloneDescendant ==
    /\ standalone.pc = "descendants" /\ standalone.children # <<>>
    /\ standalone' =
         IF SkipDescendant(standalone, Head(standalone.children))
         THEN [standalone EXCEPT !.children = Tail(@)]
         ELSE AfterStep(
                  _generate_descendant(
                      [standalone EXCEPT !.children = Tail(@),
                                         !.processed = Append(@, Head(standalone.children))],
                      Head(standalone.children), standalone.distro),
                  "descendants")
    /\ UNCHANGED <<builderVars, renderVars, netboot, yast>>

\* generate_standalone_iso: the write of isolinux.cfg, and _sync_airgapped_repos up
\* to its loop
StandaloneWrite ==
    /\ standalone.pc = "descendants" /\ standalone.children = <<>>
    /\ standalone' =
         [standalone EXCEPT
            !.pc = "repos",
            !.cfglines = @ \o <<"", "MENU END">>,
            !.io = @ \o <<[op |-> "write", file |-> "isolinux.cfg",
                           content |-> standalone.cfglines \o <<"", "MENU END">>]>>
                     \o (IF standalone.airgapped
                         THEN <<[op |-> "makedirs", file |-> "repo_mirror", content |-> <<>>]>>
                         ELSE <<>>),
            !.repos_left = IF standalone.airgapped
                           THEN [i \in 1..Len(standalone.repo_names_to_copy) |->
                                    standalone.repo_names_to_copy[i].k]
                           ELSE <<>>]
    /\ UNCHANGED <<builderVars, renderVars, netboot, yast>>

\* Mutant: a failed copy is logged and the loop goes on.
StandaloneRepoCopy_continues ==
    /\ standalone.pc = "repos" /\ standalone.repos_left # <<>>
    /\ standalone' =
         [standalone EXCEPT
            !.repos_left = Tail(@),
            !.io = Append(@, [op |-> "rsync_repo", file |-> Head(standalone.repos_left),
                              content |-> <<>>])]
    /\ UNCHANGED <<builderVars, renderVars, netboot, yast>>

\* _sync_airgapped_repos: one turn of the loop over repo_names_to_copy
StandaloneRepoCopy ==
    /\ standalone.pc = "repos" /\ standalone.repos_left # <<>>
    /\ standalone' =
         AfterStep(
             [standalone EXCEPT
                !.repos_left = Tail(@),
                !.io = Append(@, [op |-> "rsync_repo", file |-> Head(standalone.repos_left),
                                  content |-> <<>>]),
                !.exc = IF standalone.rsync_ok[Head(standalone.repos_left)] THEN ""
                        ELSE "RuntimeError",
                !.msg = IF standalone.rsync_ok[Head(standalone.repos_left)] THEN ""
                        ELSE "rsync of repo \"" \o Head(standalone.repos_left) \o "\" failed"],
             "repos")
    /\ UNCHANGED <<builderVars, renderVars, netboot, yast>>

\* generate_standalone_iso: the rsync of the install tree
StandaloneDistroCopy ==
    /\ standalone.pc = "repos" /\ standalone.repos_left = <<>>
    /\ standalone' =
         AfterStep(
             [standalone EXCEPT
                !.io = Append(@, [op |-> "rsync_distro", file |-> standalone.distro.name,
                                  content |-> <<>>]),
                !.exc = IF standalone.distro_rsync_ok THEN "" ELSE "OSError",
                !.msg = IF standalone.distro_rsync_ok THEN ""
                        ELSE "rsync of distro files failed"],
             "done")
    /\ UNCHANGED <<builderVars, renderVars, netboot, yast>>

NextStandalone ==
    \/ StandaloneBegin \/ StandaloneDescendant \/ StandaloneWrite
    \/ StandaloneRepoCopy \/ StandaloneDistroCopy

SpecStandalone == InitStandalone /\ [][NextStandalone]_vars

\* ------------------------------------------------ StandaloneBuildiso.run
\* _validate_standalone_filesource: the source it returns, or its ValueError
_validate_standalone_filesource(filesource) ==
    IF ~filesource.given
    THEN IF filesource.in_mirror
         THEN [exc |-> "", msg |-> ""]
         ELSE [exc |-> "ValueError", msg |-> "Error, no installation source found."]
    ELSE [exc |-> "", msg |-> ""]

\* orphan_profiles of _validate_standalone_args
orphan_profiles(self) ==
    SelectSeq(self.profiles, LAMBDA profile : ~InSeq(profile, self.child_names))

\* Mutant: the profiles of the filter are not compared with the children.
_validate_standalone_args_no_orphans(self) ==
    IF self.distro_name = ""
    THEN [self EXCEPT !.exc = "ValueError",
                      !.msg = "When building a standalone ISO, you must specify a --distro"]
    ELSE IF self.find_distro # "one"
    THEN [self EXCEPT !.exc = "ValueError", !.msg = "Distro specified was not found!"]
    ELSE IF _validate_standalone_filesource(self.source).exc # ""
    THEN [self EXCEPT !.exc = "ValueError",
                      !.msg = _validate_standalone_filesource(self.source).msg]
    ELSE IF ~self.source.exists
    THEN [self EXCEPT !.exc = "ValueError", !.msg = "The specified source does not exist!"]
    ELSE self

\* _validate_standalone_args: self as the call leaves it, exc set when it raises
_validate_standalone_args(self) ==
    IF self.distro_name = ""
    THEN [self EXCEPT !.exc = "ValueError",
                      !.msg = "When building a standalone ISO, you must specify a --distro"]
    ELSE IF self.find_distro # "one"
    THEN [self EXCEPT !.exc = "ValueError", !.msg = "Distro specified was not found!"]
    ELSE IF _validate_standalone_filesource(self.source).exc # ""
    THEN [self EXCEPT !.exc = "ValueError",
                      !.msg = _validate_standalone_filesource(self.source).msg]
    ELSE IF ~self.source.exists
    THEN [self EXCEPT !.exc = "ValueError", !.msg = "The specified source does not exist!"]
    ELSE IF Len(self.profiles) > 0 /\ Len(orphan_profiles(self)) > 0
    THEN [self EXCEPT !.exc = "ValueError",
                      !.msg = "When building a standalone ISO, all --profiles must be under --distro"]
    ELSE self

\* The children a distro of a run may have: a profile with a repository, a
\* profile without one, and a system of the first profile.
RunDescendants ==
    { Descendant("profile", "pA", "", <<>>, <<"r1">>),
      Descendant("profile", "pB", "", <<[k |-> "text", val |-> PyNone]>>, <<>>),
      Descendant("system", "sA", "pA", <<>>, <<"r1">>) }

\* The sources of a run: given and there, given and missing, not given with the
\* kernel under the distro mirror, not given with the kernel elsewhere.
RunSources ==
    { GivenSource, Source(TRUE, FALSE, FALSE), Source(FALSE, TRUE, TRUE),
      Source(FALSE, FALSE, FALSE) }

\* run is entered: self.profiles is the filter as _prepare_iso stored it
InitStandaloneRun ==
    /\ \E distro \in StDistros, children \in ListsOf(RunDescendants, MaxChildren),
          distro_name \in {"", "given"}, find_distro \in {"one", "none", "list"},
          source \in RunSources,
          profiles \in {<<>>, <<"pA">>, <<"pX">>, <<"pA", "pX">>},
          airgapped \in BOOLEAN :
          standalone =
              [NewStandalone(find_distro, distro, children, profiles, airgapped,
                             [r \in {"r1", "r2"} |-> Repo("one", TRUE, TRUE)],
                             [repo |-> [r \in {"r1", "r2"} |-> TRUE], distro |-> TRUE])
                  EXCEPT !.pc = "run",
                         !.distro_name = IF distro_name = "" THEN "" ELSE distro.name,
                         !.source = source]
    /\ builder = NotBuilt /\ call = NoCall /\ target = NotBuilt
    /\ autoinstallgen = NotBuilt /\ templar = NotBuilt /\ cheetahtemplate = NotBuilt
    /\ netboot = NotBuilt /\ yast = NotBuilt

\* run up to the call of generate_standalone_iso: _prepare_iso, which stores the
\* filter and prepares the build directory, then _validate_standalone_args
StandaloneValidate ==
    /\ standalone.pc = "run"
    /\ standalone' = AfterStep(_validate_standalone_args(standalone), "new")
    /\ UNCHANGED <<builderVars, renderVars, netboot, yast>>

NextStandaloneRun == StandaloneValidate \/ NextStandalone

SpecStandaloneRun == InitStandaloneRun /\ [][NextStandaloneRun]_vars


\* -------------------------------------------- claims on the standalone run
\* A descendant refers to a repository whose local mirror directory does not exist.
RefersMissingMirror(descendant) ==
    \E i \in 1..Len(descendant.data.repos) :
        ~standalone.find_repo[descendant.data.repos[i]].mirrordir_exists

\* The run is airgapped and has processed such a descendant.
MissingMirrorProcessed ==
    /\ standalone.airgapped
    /\ \E i \in 1..Len(standalone.processed) : RefersMissingMirror(standalone.processed[i])

RepoCopyStarted == \E i \in 1..Len(standalone.io) : standalone.io[i].op = "rsync_repo"
IsolinuxCfgWritten ==
    \E i \in 1..Len(standalone.io) :
        standalone.io[i].op = "write" /\ standalone.io[i].file = "isolinux.cfg"

\* C6: in an airgapped build, once a processed descendant refers to a repository
\* whose local mirror directory does not exist, generate_standalone_iso has raised
\* ValueError, no repository copy has started and isolinux.cfg is not written.
C6_MissingMirrorAborts ==
    MissingMirrorProcessed =>
        /\ standalone.pc = "raised" /\ standalone.exc = "ValueError"
        /\ ~RepoCopyStarted
        /\ ~IsolinuxCfgWritten

\* The second descendant of a run fails the directory check of a repository that
\* exists and is mirrored locally, after the file of the first one was written.
C6_Witness ==
    /\ MissingMirrorProcessed
    /\ Len(standalone.processed) = 2
    /\ \E i \in 1..Len(standalone.io) :
          standalone.io[i].op = "write"
          /\ standalone.io[i].file = standalone.processed[1].name \o ".cfg"
    /\ standalone.pc = "raised"
    /\ \E r \in {"r1", "r2"} :
          standalone.msg = RepoError(standalone.processed[2], r,
                                     "has a missing local mirror directory")

\* --------------------------------- the autoinstall token of a redhat line
\* The os_version values of the redhat distros of this specification: the four
\* the code names, and others next to them.
KsOsVersions ==
    {"rhel4", "rhel5", "rhel6", "fedora16", "rhel3", "rhel7", "rhel8", "rhel9",
     "fedora15", "fedora17", "fedora160", "RHEL6", ""}

\* The blended data of a system or profile of a redhat distro.  kernel_options
\* may itself hold a ks or inst.ks option.
KsDatas ==
    { [kernel_options |-> kopts, interfaces |-> ifs, gateway |-> "10.0.0.254",
       name_servers |-> PyList(<<"10.0.0.2">>), proxy |-> proxy, server |-> "10.0.0.1",
       http_port |-> "80",
       autoinstall |-> "http://10.0.0.1:80/cblr/svc/op/autoinstall/system/s1"]
      : kopts \in {<<>>, <<[k |-> "ks", val |-> PyStr("nfs://inst/old.ks")]>>,
                   <<[k |-> "inst.ks", val |-> PyStr("nfs://inst/new.ks")]>>,
                   <<[k |-> "quiet", val |-> PyNone]>>},
        ifs \in {<<>>, <<Iface("eth0", "na", TRUE, "")>>},
        proxy \in {"", "http://10.0.0.9:3128"} }

InitKs ==
    /\ \E os_version \in KsOsVersions, data \in KsDatas :
          /\ target = [dist |-> StDistro("d1", "redhat", os_version), data |-> data,
                       system |-> [name |-> Chars("s1"), hostname |-> <<>>]]
          /\ builder = NewBuilder("1", data)
    /\ call = NoCall
    /\ netboot = NotBuilt /\ standalone = NotBuilt /\ yast = NotBuilt
    /\ autoinstallgen = NotBuilt /\ templar = NotBuilt /\ cheetahtemplate = NotBuilt

\* _generate_append_line_standalone(data, distro, descendant) for the target
StandaloneLine ==
    /\ call.op = "new"
    /\ builder' = [builder EXCEPT
                     !.append_line =
                         _generate_append_line_standalone(
                             builder.data, target.dist,
                             [name |-> StrOf(target.system.name)])]
    /\ call' = [op |-> "standalone", exclude_dns |-> FALSE, scheme |-> ""]
    /\ UNCHANGED <<target, asmVars>>

NextKs == GenerateSystem \/ GenerateProfile \/ StandaloneLine

SpecKs == InitKs /\ [][NextKs]_vars

\* One of the three compilers has returned a line for a redhat distro.
KsReturned ==
    /\ call.op \in {"generate_system", "generate_profile", "standalone"}
    /\ builder.exc = ""
    /\ target.dist.breed = "redhat"

\* The tokens the compiler itself put in the line: the line without the tail of
\* remaining kernel options.
EmittedToks ==
    SubSeq(builder.append_line.toks, 1,
           Len(builder.append_line.toks)
               - Len(add_remaining_kopts(builder.data.kernel_options)))

\* The location of the autoinstall document that the line has to name.
KsPath ==
    IF call.op = "standalone" THEN "cdrom:/isolinux/" \o StrOf(target.system.name) \o ".cfg"
    ELSE target.data.autoinstall

\* C7: for breed redhat the compiler emits exactly one autoinstall token, which is
\* ks=<path> when os_version is rhel4, rhel5, rhel6 or fedora16 and inst.ks=<path>
\* for every other os_version, alike in generate_system, generate_profile and the
\* standalone append line.
C7_KsTokenByOsVersion ==
    KsReturned =>
        LET auto == SelectSeq(EmittedToks, LAMBDA t : t.k \in {"ks", "inst.ks"})
        IN  /\ Len(auto) = 1
            /\ auto[1] = Tok(IF target.dist.os_version \in {"rhel4", "rhel5", "rhel6", "fedora16"}
                             THEN "ks" ELSE "inst.ks",
                             KsPath)

\* generate_system for fedora16 with an inst.ks kernel option: the line has the
\* ks token of the compiler and the option behind it.
C7_Witness ==
    /\ KsReturned
    /\ call.op = "generate_system"
    /\ target.dist.os_version = "fedora16"
    /\ DictHas(target.data.kernel_options, "inst.ks")
    /\ InSeq(Tok("ks", target.data.autoinstall), builder.append_line.toks)
    /\ InSeq(Tok("inst.ks", "nfs://inst/new.ks"), builder.append_line.toks)

\* ----------------------------------- hostname and domain of a debian line
\* Every string of at least min and at most max characters over an alphabet.
StringsOver(alphabet, min, max) == UNION {[1..n -> alphabet] : n \in min..max}

\* The names and hostname attributes of the systems of this specification.
HostAlphabet == {"a", "b", "."}
HostNames ==
    StringsOver(HostAlphabet, 1, MaxNameLen)
        \cup {Chars("host.sub.example.com"), Chars("bare")}
HostHostnames ==
    StringsOver(HostAlphabet, 0, MaxNameLen - 1) \cup {Chars("host.sub.example.com")}

HostDatas ==
    { [kernel_options |-> kopts, interfaces |-> <<>>, gateway |-> "",
       name_servers |-> PyList(<<>>), proxy |-> proxy, server |-> "10.0.0.1",
       http_port |-> "80",
       autoinstall |-> "http://10.0.0.1:80/cblr/svc/op/autoinstall/system/s1"]
      : kopts \in {<<>>, <<[k |-> "hostname", val |-> PyStr("other")]>>},
        proxy \in {"", "http://10.0.0.9:3128"} }

InitHost ==
    /\ \E dist \in {Distro("d-deb", "debian", "bookworm"), Distro("d-ubu", "ubuntu", "jammy")},
          name \in HostNames, hostname \in HostHostnames, data \in HostDatas :
          /\ target = [dist |-> dist, data |-> data,
                       system |-> [name |-> name, hostname |-> hostname]]
          /\ builder = NewBuilder("1", data)
    /\ call = NoCall
    /\ netboot = NotBuilt /\ standalone = NotBuilt /\ yast = NotBuilt
    /\ autoinstallgen = NotBuilt /\ templar = NotBuilt /\ cheetahtemplate = NotBuilt

NextHost == GenerateSystem

SpecHost == InitHost /\ [][NextHost]_vars

\* generate_system has returned a line for a debian-like distro.
HostReturned ==
    /\ call.op = "generate_system"
    /\ builder.exc = ""
    /\ target.dist.breed \in {"debian", "ubuntu"}

\* What the hostname and domain are taken from.
HostSource ==
    IF target.system.hostname # <<>> THEN target.system.hostname ELSE target.system.name

\* The positions of the dots of the source.
DotsAt == {i \in 1..Len(HostSource) : HostSource[i] = "."}

\* The first label of the source, and what is behind the first dot.
ExpectedHostname ==
    IF DotsAt = {} THEN HostSource
    ELSE SubSeq(HostSource, 1, (CHOOSE i \in DotsAt : \A j \in DotsAt : i <= j) - 1)
ExpectedDomain ==
    IF DotsAt = {} THEN "local.lan"
    ELSE StrOf(SubSeq(HostSource, (CHOOSE i \in DotsAt : \A j \in DotsAt : i <= j) + 1,
                      Len(HostSource)))

\* C8: in generate_system for debian and ubuntu the compiler emits one hostname
\* token, the first dot-separated label of the system's hostname attribute when
\* that is non-empty and else of its name, and one domain token, the remaining
\* labels joined by "." or local.lan when there are none; host.sub.example.com
\* gives hostname=host domain=sub.example.com and bare gives hostname=bare
\* domain=local.lan.
C8_HostnameSynthesis ==
    HostReturned =>
        /\ SelectSeq(EmittedToks, LAMBDA t : t.k \in {"hostname", "domain"})
             = <<Tok("hostname", StrOf(ExpectedHostname)), Tok("domain", ExpectedDomain)>>
        /\ HostSource = Chars("host.sub.example.com") =>
             /\ InSeq(Tok("hostname", "host"), EmittedToks)
             /\ InSeq(Tok("domain", "sub.example.com"), EmittedToks)
        /\ HostSource = Chars("bare") =>
             /\ InSeq(Tok("hostname", "bare"), EmittedToks)
             /\ InSeq(Tok("domain", "local.lan"), EmittedToks)

\* A system named host.sub.example.com without a hostname attribute.
C8_Witness ==
    /\ HostReturned
    /\ target.system.hostname = <<>>
    /\ target.system.name = Chars("host.sub.example.com")
    /\ InSeq(Tok("hostname", "host"), builder.append_line.toks)
    /\ InSeq(Tok("domain", "sub.example.com"), builder.append_line.toks)

\* ------------------------------------------------------ AutoYaST generator
\* A node of an XML document: an element with attributes (an ordered dict) and
\* children, a text node, a CDATA section or the document type.
YElement(tag, attrs, children) ==
    [tag |-> tag, attrs |-> attrs, children |-> children, text |-> ""]
YText(text) == [tag |-> "#text", attrs |-> <<>>, children |-> <<>>, text |-> text]
YCData(text) == [tag |-> "#cdata-section", attrs |-> <<>>, children |-> <<>>, text |-> text]
YDoctype(name) == [tag |-> "#doctype", attrs |-> <<>>, children |-> <<>>, text |-> name]

\* node.nodeType == node.ELEMENT_NODE
IsElement(node) == node.tag \notin {"#text", "#cdata-section", "#doctype"}

\* The text of a document is the sequence of its markup tokens.
RECURSIVE toxml(_)
\* toxml of a list of sibling nodes
toxml(nodes) ==
    IF nodes = <<>> THEN <<>>
    ELSE (CASE nodes[1].tag = "#text" -> <<[k |-> "text", tag |-> "", attrs |-> <<>>,
                                            text |-> nodes[1].text]>>
            [] nodes[1].tag = "#cdata-section" -> <<[k |-> "cdata", tag |-> "", attrs |-> <<>>,
                                                     text |-> nodes[1].text]>>
            [] nodes[1].tag = "#doctype" -> <<[k |-> "doctype", tag |-> "", attrs |-> <<>>,
                                               text |-> nodes[1].text]>>
            [] OTHER -> <<[k |-> "open", tag |-> nodes[1].tag, attrs |-> nodes[1].attrs,
                           text |-> ""]>>
                        \o toxml(nodes[1].children)
                        \o <<[k |-> "close", tag |-> nodes[1].tag, attrs |-> <<>>,
                              text |-> ""]>>)
         \o toxml(Tail(nodes))

\* Nodes in front of the parse of what follows them.
NodesBefore(nodes, following) ==
    [nodes |-> nodes \o following.nodes, rest |-> following.rest]

\* A text node in front of the parse of what follows it: character data that is
\* adjacent in the text is one text node.
TextBefore(text, following) ==
    IF following.nodes # <<>> /\ following.nodes[1].tag = "#text"
    THEN [nodes |-> <<YText(text \o following.nodes[1].text)>> \o Tail(following.nodes),
          rest |-> following.rest]
    ELSE NodesBefore(<<YText(text)>>, following)

RECURSIVE parseNodes(_)
\* An element and its siblings; inner is the parse of what follows the open tag,
\* which ends at the close tag of the element.
ElementBefore(open, inner) ==
    NodesBefore(<<YElement(open.tag, open.attrs, inner.nodes)>>,
                parseNodes(Tail(inner.rest)))

\* The sibling nodes that a text starts with, up to a close tag or the end, and
\* the text from there on.
parseNodes(toks) ==
    IF toks = <<>> \/ toks[1].k = "close" THEN [nodes |-> <<>>, rest |-> toks]
    ELSE CASE toks[1].k = "open" -> ElementBefore(toks[1], parseNodes(Tail(toks)))
           [] toks[1].k = "text" -> TextBefore(toks[1].text, parseNodes(Tail(toks)))
           [] toks[1].k = "cdata" ->
                NodesBefore(<<YCData(toks[1].text)>>, parseNodes(Tail(toks)))
           [] OTHER -> NodesBefore(<<YDoctype(toks[1].text)>>, parseNodes(Tail(toks)))

\* xml.dom.minidom.parseString(template): document.childNodes
parseString(template) == parseNodes(template).nodes

\* The attribute names with the prefix config, and the declaration of the prefix.
ConfigNames == {"config:type"}
XmlnsConfig == <<[k |-> "xmlns:config", val |-> "http://www.suse.com/1.0/configns"]>>

\* An element declares the prefix config, or uses it.
Declares(node) == \E a \in 1..Len(node.attrs) : node.attrs[a].k = "xmlns:config"
UsesConfig(node) == \E a \in 1..Len(node.attrs) : node.attrs[a].k \in ConfigNames

RECURSIVE unbound_prefix(_, _)
\* parseString raises ExpatError (unbound prefix) for a text in which the prefix
\* config is used by an element that is not in the scope of a declaration; bound
\* tells whether the nodes are in such a scope.
unbound_prefix(nodes, bound) ==
    \E i \in 1..Len(nodes) :
        /\ IsElement(nodes[i])
        /\ \/ UsesConfig(nodes[i]) /\ ~(bound \/ Declares(nodes[i]))
           \/ unbound_prefix(nodes[i].children, bound \/ Declares(nodes[i]))

\* The index of document.documentElement in document.childNodes
RootAt(childNodes) == CHOOSE i \in 1..Len(childNodes) : IsElement(childNodes[i])

RECURSIVE Concat(_)
Concat(seqs) == IF seqs = <<>> THEN <<>> ELSE seqs[1] \o Concat(Tail(seqs))

RECURSIVE getElementsByTagName(_, _, _)
\* The elements of that name in the tree of node, in document order; an element
\* is given by its path, the child indexes that lead to it from node.
getElementsByTagName(node, path, name) ==
    (IF IsElement(node) /\ node.tag = name THEN <<path>> ELSE <<>>)
    \o Concat([i \in 1..Len(node.children) |->
                  getElementsByTagName(node.children[i], Append(path, i), name)])

RECURSIVE NodeAt(_, _)
NodeAt(node, path) ==
    IF path = <<>> THEN node ELSE NodeAt(node.children[path[1]], Tail(path))

RECURSIVE appendChild(_, _, _)
\* <element at path>.appendChild(child)
appendChild(node, path, child) ==
    IF path = <<>> THEN [node EXCEPT !.children = Append(@, child)]
    ELSE [node EXCEPT !.children[path[1]] = appendChild(@, Tail(path), child)]

\* AutoYastGenerator.__create_autoyast_script
__create_autoyast_script(script, name) ==
    YElement("script", <<>>,
             <<YElement("source", <<>>, <<YCData(script)>>),
               YElement("filename", <<>>, <<YText(name)>>)>>)

\* __add_auto_yast_script: the document with a <scripts> element
with_scripts(root) ==
    IF getElementsByTagName(root, <<>>, "scripts") = <<>>
    THEN appendChild(root, <<>>, YElement("scripts", <<>>, <<>>))
    ELSE root

\* The children of scripts[0] that are elements of the script type.
ContainersAt(root, scripts0, script_type) ==
    {i \in 1..Len(NodeAt(root, scripts0).children) :
        /\ IsElement(NodeAt(root, scripts0).children[i])
        /\ NodeAt(root, scripts0).children[i].tag = script_type}

RECURSIVE append_to_each(_, _, _, _)
\* __add_auto_yast_script: the loop over scripts[0].childNodes
append_to_each(root, scripts0, at, script) ==
    IF at = {} THEN root
    ELSE append_to_each(appendChild(root, Append(scripts0, CHOOSE i \in at : TRUE), script),
                        scripts0, at \ {CHOOSE i \in at : TRUE}, script)

\* __add_auto_yast_script from the loop on; scripts0 is the path of scripts[0]
add_to_scripts(root, scripts0, script_type, source) ==
    IF ContainersAt(root, scripts0, script_type) = {}
    THEN appendChild(root, scripts0,
                     YElement(script_type, <<[k |-> "config:type", val |-> "list"]>>,
                              <<__create_autoyast_script(source, script_type \o "_cobbler")>>))
    ELSE append_to_each(root, scripts0, ContainersAt(root, scripts0, script_type),
                        __create_autoyast_script(source, script_type \o "_cobbler"))

\* Mutant: a script type that already has a callback script gets no other one.
__add_auto_yast_script_once(root, script_type, source) ==
    IF \E p \in {getElementsByTagName(root, <<>>, "filename")[i] :
                    i \in 1..Len(getElementsByTagName(root, <<>>, "filename"))} :
          NodeAt(root, p).children = <<YText(script_type \o "_cobbler")>>
    THEN root
    ELSE add_to_scripts(with_scripts(root),
                        getElementsByTagName(with_scripts(root), <<>>, "scripts")[1],
                        script_type, source)

\* AutoYastGenerator.__add_auto_yast_script on the tree of the document element
__add_auto_yast_script(root, script_type, source) ==
    add_to_scripts(with_scripts(root),
                   getElementsByTagName(with_scripts(root), <<>>, "scripts")[1],
                   script_type, source)

\* generate_autoinstall: the <cobbler> element that is made when the document has
\* none.  The code appends nothing else to it and does not put it in the document.
cobbler_element(obj, blended) ==
    YElement("cobbler", <<>>,
             <<YElement("server", <<>>, <<YText(blended.http_server)>>),
               YElement("system_name", <<>>, <<>>),
               YElement("profile_name", <<>>, <<YText(obj.name)>>)>>)

\* add_comment of generate_autoinstall, for node = document.childNodes[1]
add_comment(node) ==
    IF \E i \in 1..Len(node.children) :
          IsElement(node.children[i]) /\ node.children[i].tag = "cobbler"
    THEN 0 ELSE 1

\* The source of a trigger script; mode is "pre" or "post".
TriggerSource(settings, srv, mode, obj) ==
    "\ncurl \"" \o settings.autoinstall_scheme \o "://" \o srv \o "/cblr/svc/op/trig/mode/"
        \o mode \o "/" \o obj.ITEM_TYPE \o "/" \o obj.name \o "\" > /dev/null"

\* generate_autoinstall from the test of run_install_triggers on: the child nodes
\* of the document that is returned
with_triggers(settings, srv, obj, childNodes) ==
    IF settings.run_install_triggers
    THEN [childNodes EXCEPT
            ![RootAt(childNodes)] =
                __add_auto_yast_script(
                    __add_auto_yast_script(@, "pre-scripts",
                                           TriggerSource(settings, srv, "pre", obj)),
                    "init-scripts", TriggerSource(settings, srv, "post", obj))]
    ELSE childNodes

\* AutoYastGenerator.generate_autoinstall: the text returned, or the exception.
\* The <cobbler> element that is made when add_comment is 1 is appended to no
\* node of the document, so the document that is returned is the same for both
\* values of add_comment.
generate_autoinstall(settings, blended, obj, template) ==
    IF unbound_prefix(parseString(template), FALSE)
    THEN [text |-> <<>>, exc |-> "ExpatError"]       \* parseString(template)
    ELSE IF Len(parseString(template)) < 2
    THEN [text |-> <<>>, exc |-> "IndexError"]       \* document.childNodes[1]
    ELSE [text |-> toxml(with_triggers(settings, blended.http_server, obj,
                                       parseString(template))),
          exc |-> ""]

\* --------------------------------------------- inputs of the generator
\* A callback script as an earlier generation for profile p1 has left it, and a
\* script of the administrator.
OldCallback(script_type) ==
    __create_autoyast_script("\ncurl \"http://10.0.0.1/cblr/svc/op/trig/mode/pre/profile/p1\" > /dev/null",
                             script_type \o "_cobbler")
UserScript == __create_autoyast_script("echo hello", "hello.sh")

ListAttr == <<[k |-> "config:type", val |-> "list"]>>

\* What the template may hold of scripts, as children of the document element.
ScriptsChoices ==
    { <<YElement("general", <<>>, <<>>)>>,
      <<YElement("general", <<>>, <<>>), YElement("scripts", <<>>, <<>>)>>,
      <<YElement("scripts", <<>>, <<YElement("pre-scripts", ListAttr, <<>>)>>)>>,
      <<YElement("scripts", <<>>,
                 <<YElement("pre-scripts", ListAttr, <<OldCallback("pre-scripts")>>)>>)>>,
      <<YElement("scripts", <<>>,
                 <<YText("\n    "), YElement("init-scripts", ListAttr, <<UserScript>>),
                   YText("\n  ")>>)>>,
      <<YElement("scripts", <<>>,
                 <<YElement("pre-scripts", ListAttr, <<UserScript>>),
                   YElement("pre-scripts", ListAttr, <<>>)>>)>>,
      <<YElement("scripts", <<>>, <<>>),
        YElement("scripts", <<>>, <<YElement("init-scripts", ListAttr, <<>>)>>)>>,
      <<YElement("general", <<>>, <<YElement("scripts", <<>>, <<>>)>>),
        YElement("scripts", <<>>, <<YElement("pre-scripts", ListAttr, <<>>)>>)>> }

\* What the template may hold of a <cobbler> element.
CobblerChoices ==
    { <<>>,
      <<YElement("cobbler", <<>>,
                 <<YElement("server", <<>>, <<YText("10.0.0.1")>>),
                   YElement("system_name", <<>>, <<>>),
                   YElement("profile_name", <<>>, <<YText("p1")>>)>>)>> }

\* The templates: with or without a document type in front of the <profile>
\* element, which declares the prefix config or does not.
YastTemplates ==
    { toxml(prolog \o <<YElement("profile", xmlns, cobbler \o scripts)>>) :
        prolog \in {<<>>, <<YDoctype("profile")>>}, xmlns \in {<<>>, XmlnsConfig},
        cobbler \in CobblerChoices, scripts \in ScriptsChoices }

InitYast ==
    /\ \E template \in YastTemplates, run_install_triggers \in BOOLEAN,
          obj \in {[ITEM_TYPE |-> "profile", name |-> "p1"],
                   [ITEM_TYPE |-> "system", name |-> "s1"]} :
          yast = [template |-> template, first |-> template, gens |-> 0,
                  obj |-> obj, blended |-> [http_server |-> "10.0.0.1"],
                  settings |-> [run_install_triggers |-> run_install_triggers,
                                autoinstall_scheme |-> "http"],
                  exc |-> ""]
    /\ builder = NotBuilt /\ call = NoCall /\ target = NotBuilt
    /\ autoinstallgen = NotBuilt /\ templar = NotBuilt /\ cheetahtemplate = NotBuilt
    /\ netboot = NotBuilt /\ standalone = NotBuilt

\* generate_autoinstall(obj, template, requested_file); the text it returns is the
\* template of the next generation.
GenerateAutoinstall ==
    /\ yast.gens < MaxGens /\ yast.exc = ""
    /\ yast' =
         IF generate_autoinstall(yast.settings, yast.blended, yast.obj, yast.template).exc # ""
         THEN [yast EXCEPT !.exc = generate_autoinstall(yast.settings, yast.blended,
                                                        yast.obj, yast.template).exc]
         ELSE [yast EXCEPT !.gens = @ + 1,
                           !.template = generate_autoinstall(yast.settings, yast.blended,
                                                             yast.obj, yast.template).text]
    /\ UNCHANGED <<builderVars, renderVars, netboot, standalone>>

NextYast == GenerateAutoinstall

SpecYast == InitYast /\ [][NextYast]_vars


\* ------------------------------------------------ claims on the generator
\* The document element of a text.
RootOf(text) == parseString(text)[RootAt(parseString(text))]

\* A document has been returned by generate_autoinstall.
YastReturned == yast.gens >= 1 /\ yast.exc = ""

\* The <cobbler> elements under the root of the returned document.
CobblerElements ==
    SelectSeq(RootOf(yast.template).children,
              LAMBDA node : IsElement(node) /\ node.tag = "cobbler")

\* C9 as stated: the document returned by generate_autoinstall has exactly one
\* <cobbler> element under the root, whether the input had one or none.
C9_ExactlyOneCobbler == YastReturned => Len(CobblerElements) = 1

\* The containers of a script type that __add_auto_yast_script looks at: the
\* children of that name of the first <scripts> element of a document.
Containers(root, script_type) ==
    IF getElementsByTagName(root, <<>>, "scripts") = <<>> THEN <<>>
    ELSE SelectSeq(NodeAt(root, getElementsByTagName(root, <<>>, "scripts")[1]).children,
                   LAMBDA node : IsElement(node) /\ node.tag = script_type)

\* The callback scripts of a container.
Callbacks(container, script_type) ==
    SelectSeq(container.children,
              LAMBDA node :
                  /\ IsElement(node) /\ node.tag = "script"
                  /\ \E i \in 1..Len(node.children) :
                        /\ node.children[i].tag = "filename"
                        /\ node.children[i].children = <<YText(script_type \o "_cobbler")>>)

\* C10: with run_install_triggers enabled, after n generations, each made from the
\* output of the one before, each container of pre-scripts and of init-scripts
\* holds n callback scripts more than in the first template: a container that
\* was there has n more entries, same-named entries included, and a script type
\* without a container has got one, with config:type="list" and n entries.
C10_CallbacksAccumulate ==
    (yast.settings.run_install_triggers /\ YastReturned) =>
        \A script_type \in {"pre-scripts", "init-scripts"} :
            LET was == Containers(RootOf(yast.first), script_type)
                now == Containers(RootOf(yast.template), script_type)
            IN  IF was = <<>>
                THEN /\ Len(now) = 1
                     /\ now[1].attrs = <<[k |-> "config:type", val |-> "list"]>>
                     /\ Len(now[1].children) = yast.gens
                     /\ Len(Callbacks(now[1], script_type)) = yast.gens
                ELSE /\ Len(now) = Len(was)
                     /\ \A i \in 1..Len(was) :
                          /\ Len(now[i].children) = Len(was[i].children) + yast.gens
                          /\ Len(Callbacks(now[i], script_type))
                               = Len(Callbacks(was[i], script_type)) + yast.gens

\* Three generations from a template whose pre-scripts already held a callback
\* script and that had no init-scripts: four and three entries.
C10_Witness ==
    /\ yast.settings.run_install_triggers /\ YastReturned
    /\ yast.gens = 3
    /\ Len(Containers(RootOf(yast.first), "pre-scripts")) = 1
    /\ Len(Callbacks(Containers(RootOf(yast.first), "pre-scripts")[1], "pre-scripts")) = 1
    /\ Containers(RootOf(yast.first), "init-scripts") = <<>>
    /\ Len(Callbacks(Containers(RootOf(yast.template), "pre-scripts")[1], "pre-scripts")) = 4
    /\ Len(Callbacks(Containers(RootOf(yast.template), "init-scripts")[1], "init-scripts")) = 3

\* ------------------------------ failures and suse tokens of the compiler
\* generate_system or generate_profile has been called on the builder.
CompilerCalled == call.op \in {"generate_system", "generate_profile"}

\* C11 as stated: generate_system and generate_profile do not raise when
\* kernel_options and autoinstall are in the resolved configuration, as they are
\* in every configuration of the model, whatever optional field is missing
\* (proxy, gateway, name servers, addresses of an interface, the slave interfaces
\* of a bonded or bridged management interface).
C11_NeverRaisesOnOptional == CompilerCalled => builder.exc = ""

\* The install= override of the target, and the location the compiler synthesizes.
InstallOverride == DictGet(KoptsIn, "install")
SynthesizedInstall ==
    call.scheme \o "://" \o target.data.server \o ":" \o target.data.http_port
        \o "/cblr/links/" \o target.dist.name

\* C12 as stated: for breed suse the line of generate_system and of
\* generate_profile holds exactly one install= token, with the override when
\* kernel_options.install is non-empty (string or list) and else the synthesized
\* location of the distro, and exactly one autoyast= token, with the override or
\* else the autoinstall location; a consumed override is not emitted again.
C12_OneInstallOneAutoyast ==
    (CompilerCalled /\ builder.exc = "" /\ target.dist.breed = "suse") =>
        /\ ToksWithKey("install") =
             <<Tok("install", IF InstallOverride # PyStr("") THEN ShownValue(InstallOverride)
                              ELSE SynthesizedInstall)>>
        /\ ToksWithKey("autoyast") =
             <<Tok("autoyast", IF DictGet(KoptsIn, "autoyast") # PyStr("")
                               THEN ShownValue(DictGet(KoptsIn, "autoyast"))
                               ELSE target.data.autoinstall)>>

\* ----------------------------- boot files, maps and the file of the run
\* C13 as stated: in one run copy_boot_files is called once per distinct distro;
\* a later profile or system of a distro that has its short name does not
\* trigger another copy.
C13_OneCopyPerDistro ==
    \A i, j \in 1..Len(netboot.copied) :
        netboot.copied[i].dist = netboot.copied[j].dist => i = j

\* C14 as stated: a generate_netboot_iso call starts from an empty short-name map
\* and a counter of zero, also when an earlier call was made on the same object.
C14_FreshMapsPerCall ==
    netboot.call.op = "generate_netboot_iso" =>
        netboot.distmap = <<>> /\ netboot.distctr = 0

\* A document has a stanza for a name.
HasLabel(doc, name) == \E i \in 1..Len(doc) : doc[i] = "LABEL " \o name

\* The systems the run is to give a stanza: those of the found ones that are
\* under a profile.
SelectedSystems ==
    SelectSeq(netboot.args.systems, LAMBDA system : system.parent.type = "profile")

\* C15: generate_netboot_iso writes isolinux.cfg at most once, and only after
\* every selected profile and system has got its stanza; a run in which a
\* profile or system raised has written no isolinux.cfg.
C15_WriteOnceOrAbort ==
    /\ netboot.writes <= 1
    /\ (netboot.writes = 1) <=> (netboot.pc = "written")
    /\ netboot.pc = "written" =>
         /\ netboot.exc = "" /\ netboot.profiles = <<>> /\ netboot.systems = <<>>
         /\ \A i \in 1..Len(netboot.args.profiles) :
                HasLabel(netboot.isolinuxcfg, netboot.args.profiles[i].name)
         /\ \A i \in 1..Len(SelectedSystems) :
                HasLabel(netboot.isolinuxcfg, StrOf(SelectedSystems[i].name))
    /\ netboot.pc = "raised" =>
         /\ netboot.exc # "" /\ netboot.writes = 0 /\ netboot.isolinuxcfg = <<>>

\* A run raised on its second profile, with the stanza of the first in cfglines.
C15_Witness ==
    /\ netboot.pc = "raised" /\ netboot.call.op = "_generate_netboot_profile"
    /\ Len(netboot.args.profiles) = 2
    /\ HasLabel(netboot.cfglines, netboot.args.profiles[1].name)
    /\ netboot.isolinuxcfg = <<>>

\* The lines of a document that are no append line.
StructureLines ==
    {"", "<iso_template>", "MENU SEPARATOR", "MENU END"}
    \cup UNION { {"LABEL " \o name, "  MENU LABEL " \o name}
                 : name \in {"p0", "p1", "p2", "p3", "s1", "s2", "s3", "s4"} }
    \cup UNION { {"  kernel " \o ToString(n) \o ".krn", "  KERNEL " \o ToString(n) \o ".krn"}
                 : n \in 1..(MaxProfiles + MaxSystems) }

\* The five lines of doc after line at are the stanza of name.
IsStanza(doc, at, name, kernel_word) ==
    /\ doc[at + 1] = ""
    /\ doc[at + 2] = "LABEL " \o name
    /\ doc[at + 3] = "  MENU LABEL " \o name
    /\ \E n \in 1..netboot.distctr :
          doc[at + 4] = "  " \o kernel_word \o " " \o ToString(n) \o ".krn"
    /\ doc[at + 5] \notin StructureLines

C17_FilterSystems ==
    /\ netboot.call.op = "filter_systems" =>
         /\ netboot.systems = SelectedSystems
         /\ netboot.exc = ""
    /\ \A i \in 1..Len(netboot.args.systems) :
         netboot.args.systems[i].parent.type # "profile" =>
            /\ ~HasLabel(netboot.cfglines, StrOf(netboot.args.systems[i].name))
            /\ ~HasLabel(netboot.isolinuxcfg, StrOf(netboot.args.systems[i].name))
            /\ ~(netboot.call.op = "_generate_netboot_system"
                 /\ netboot.call.item = netboot.args.systems[i])

\* A run whose only found system is under an image has written its document.
C17_Witness ==
    /\ netboot.pc = "written"
    /\ Len(netboot.args.systems) = 1
    /\ netboot.args.systems[1].parent.type = "image"
    /\ netboot.isolinuxcfg[Len(netboot.isolinuxcfg) - 2] = "MENU SEPARATOR"

\* -------------------------------------------------- claims on run
\* The arguments of the run at hand do not pass _validate_standalone_args: no
\* distro name, no single distro of that name, or a filter that names a profile
\* which is not among the children of the distro.
BadStandaloneArgs ==
    \/ standalone.distro_name = ""
    \/ standalone.find_distro # "one"
    \/ \E i \in 1..Len(standalone.profiles) :
           ~InSeq(standalone.profiles[i], standalone.child_names)

WrittenAt(file) ==
    IF \E i \in 1..Len(standalone.io) :
           standalone.io[i].op = "write" /\ standalone.io[i].file = file
    THEN CHOOSE i \in 1..Len(standalone.io) :
             standalone.io[i].op = "write" /\ standalone.io[i].file = file
    ELSE 0

\* The lines of isolinux.cfg as the run wrote them.
IsolinuxCfg == standalone.io[WrittenAt("isolinux.cfg")].content

\* The append line of the stanza of a descendant in isolinux.cfg: the line after
\* KERNEL, which a system has one line later than a profile.
StanzaAppendLine(descendant) ==
    LET at == CHOOSE i \in 1..Len(IsolinuxCfg) : IsolinuxCfg[i] = "LABEL " \o descendant.name
    IN  IsolinuxCfg[at + (IF descendant.type = "system" THEN 4 ELSE 3)]

\* The ways an append line names the autoinstall file of a descendant.
FileReferences(name) ==
    { <<Tok("ks", "cdrom:/isolinux/" \o name \o ".cfg")>>,
      <<Tok("inst.ks", "cdrom:/isolinux/" \o name \o ".cfg")>>,
      <<Tok("autoyast", "file:///isolinux/" \o name \o ".cfg"), Tok("install", "cdrom:///")>>,
      <<Tok("auto-install/enable", "true"),
        Tok("preseed/file", "/cdrom/isolinux/" \o name \o ".cfg")>> }

\* The kernel options of a descendant that follow the reference on its line.
RemainingOf(descendant) ==
    add_remaining_kopts(
        IF standalone.distro.breed = "suse"
        THEN DictDel(kopts_overwrite(descendant.data.kernel_options, "suse"), "install")
        ELSE descendant.data.kernel_options)

\* An append line with the initrd, the tokens ref and the remaining options.
LineWith(descendant, ref) ==
    Render([lead |-> "  APPEND",
            toks |-> <<Tok("initrd", Basename(standalone.distro.initrd))>> \o ref
                         \o RemainingOf(descendant)])

ReferencesOwnFile(descendant) ==
    \E ref \in FileReferences(descendant.name) :
        StanzaAppendLine(descendant) = LineWith(descendant, ref)

ReferencesNoFile(descendant) == StanzaAppendLine(descendant) = LineWith(descendant, <<>>)

HasStanza(descendant) ==
    \E i \in 1..Len(IsolinuxCfg) : IsolinuxCfg[i] = "LABEL " \o descendant.name

\* <name>.cfg of a descendant was written before isolinux.cfg, with the document
\* _generate_autoinstall_data returns for it.
OwnFileWrittenBefore(descendant) ==
    /\ WrittenAt(descendant.name \o ".cfg") > 0
    /\ WrittenAt(descendant.name \o ".cfg") < WrittenAt("isolinux.cfg")
    /\ standalone.io[WrittenAt(descendant.name \o ".cfg")].content =
           _generate_autoinstall_data(standalone, descendant, standalone.distro,
                                      descendant.data,
                                      GeneratedDoc(descendant, standalone.distro)).doc

FileBreeds == {"redhat", "suse", "ubuntu", "debian"}

FirstFailedCheck(repo) ==
    IF repo.found # "one" THEN "does not exist"
    ELSE IF ~repo.mirror_locally THEN "is not configured for local mirroring"
    ELSE IF ~repo.mirrordir_exists THEN "has a missing local mirror directory"
    ELSE ""

RepoFails(repo_name) == FirstFailedCheck(standalone.find_repo[repo_name]) # ""

\* The first repository of a descendant, in the order of its list, that fails.
FirstFailingRepo(descendant) ==
    descendant.data.repos[
        CHOOSE i \in 1..Len(descendant.data.repos) :
            /\ RepoFails(descendant.data.repos[i])
            /\ \A j \in 1..(i - 1) : ~RepoFails(descendant.data.repos[j])]

HasFailingRepo(descendant) ==
    \E i \in 1..Len(descendant.data.repos) : RepoFails(descendant.data.repos[i])

LastProcessed == standalone.processed[Len(standalone.processed)]

\* C20: in an airgapped build the repo-mirror map holds no repository that fails
\* a check; a processed descendant with a failing repository has made the run
\* raise ValueError with the message of the first check, in the order exists /
\* mirrored locally / directory there, that its first failing repository fails,
\* naming the descendant and that repository; the repositories before the
\* failing one and those of the descendants before are in the map.
C20_RepoChecksInOrder ==
    (standalone.pc # "not built" /\ standalone.airgapped /\ standalone.processed # <<>>) =>
        /\ \A i \in 1..Len(standalone.repo_names_to_copy) :
               ~RepoFails(standalone.repo_names_to_copy[i].k)
        /\ HasFailingRepo(LastProcessed) =>
               /\ standalone.pc = "raised" /\ standalone.exc = "ValueError"
               /\ standalone.msg =
                      RepoError(LastProcessed, FirstFailingRepo(LastProcessed),
                                FirstFailedCheck(
                                    standalone.find_repo[FirstFailingRepo(LastProcessed)]))
        /\ \A i \in 1..Len(standalone.processed) :
               \A j \in 1..Len(standalone.processed[i].data.repos) :
                   (\A k \in 1..j : ~RepoFails(standalone.processed[i].data.repos[k])) =>
                       DictHas(standalone.repo_names_to_copy,
                               standalone.processed[i].data.repos[j])

\* pA names r2, which passes, and then r1, which is neither mirrored locally nor
\* has its directory: the run raised on the mirroring of r1 with r2 in the map.
C20_Witness ==
    /\ standalone.airgapped /\ standalone.pc = "raised"
    /\ Len(standalone.processed) = 1
    /\ LastProcessed.data.repos = <<"r2", "r1">>
    /\ standalone.find_repo["r1"] = Repo("one", FALSE, FALSE)
    /\ standalone.msg = "profile pA refers to repo r1, which is not configured for local mirroring; cannot build airgapped ISO"
    /\ DictKeys(standalone.repo_names_to_copy) = {"r2"}

\* ------------------------------------ claims on the repository rewrite
\* The document of a descendant before the repository rewrites.
BeforeRewrite(descendant) ==
    IF standalone.distro.breed = "redhat"
    THEN CdregexSub(GeneratedDoc(descendant, standalone.distro))
    ELSE GeneratedDoc(descendant, standalone.distro)

\* Line i of a document is a repo line of a name that an earlier line has too.
LaterLineOfRepo(doc, i) ==
    /\ doc[i].t = "repo" /\ doc[i].dm = ""
    /\ \E j \in 1..(i - 1) : doc[j].t = "repo" /\ doc[j].name = doc[i].name

\* C21: in an airgapped build the <name>.cfg of a processed descendant holds
\* every repo line that is not the first of its repository name as generated:
\* only the first line of a repository is rewritten to the bundled copy.
C21_FirstRepoLineOnly ==
    (standalone.pc # "not built" /\ standalone.airgapped) =>
        \A d \in 1..Len(standalone.processed) :
            WrittenAt(standalone.processed[d].name \o ".cfg") > 0 =>
                \A i \in 1..Len(BeforeRewrite(standalone.processed[d])) :
                    LaterLineOfRepo(BeforeRewrite(standalone.processed[d]), i) =>
                        standalone.io[WrittenAt(standalone.processed[d].name \o ".cfg")]
                            .content[i] = BeforeRewrite(standalone.processed[d])[i]

\* ------------------------------------ claims on the repository copies
\* The repositories the run has started to copy, in the order of the copies.
CopiedRepos ==
    LET at == SelectSeq([i \in 1..Len(standalone.io) |-> i],
                        LAMBDA i : standalone.io[i].op = "rsync_repo")
    IN  [n \in 1..Len(at) |-> standalone.io[at[n]].file]

DistroCopyStarted == \E i \in 1..Len(standalone.io) : standalone.io[i].op = "rsync_distro"

\* C22: the repositories are copied in the order of the repo-mirror map; a copy
\* that fails is the last thing the run does and makes it raise RuntimeError
\* naming that repository, with no later repository copied and no copy of the
\* install tree; the install tree is copied only after every recorded repository;
\* a build that is not airgapped copies no repository and makes no repo_mirror
\* directory.
C22_FirstFailedCopyAborts ==
    standalone.pc # "not built" =>
        /\ Len(CopiedRepos) <= Len(standalone.repo_names_to_copy)
        /\ \A n \in 1..Len(CopiedRepos) : CopiedRepos[n] = standalone.repo_names_to_copy[n].k
        /\ \A i \in 1..Len(standalone.io) :
               (standalone.io[i].op = "rsync_repo"
                    /\ ~standalone.rsync_ok[standalone.io[i].file]) =>
                   /\ i = Len(standalone.io)
                   /\ standalone.pc = "raised" /\ standalone.exc = "RuntimeError"
                   /\ standalone.msg = "rsync of repo \"" \o standalone.io[i].file \o "\" failed"
        /\ DistroCopyStarted =>
               /\ \A n \in 1..Len(CopiedRepos) : standalone.rsync_ok[CopiedRepos[n]]
               /\ standalone.airgapped =>
                      Len(CopiedRepos) = Len(standalone.repo_names_to_copy)
        /\ ~standalone.airgapped =>
               \A i \in 1..Len(standalone.io) :
                   standalone.io[i].op \notin {"rsync_repo", "makedirs"}

\* Of the recorded repositories r1 and r2 the copy of r1, the first, has failed:
\* r2 is not copied and the install tree is not.
C22_Witness ==
    /\ standalone.pc = "raised" /\ standalone.exc = "RuntimeError"
    /\ standalone.msg = "rsync of repo \"r1\" failed"
    /\ Len(standalone.repo_names_to_copy) = 2
    /\ standalone.repo_names_to_copy[2].k = "r2"
    /\ CopiedRepos = <<"r1">>
    /\ ~DistroCopyStarted

\* ------------------------------------------------- autoinstall dispatch
\* What a call returns or raises.
Returned(text) == [kind |-> "return", exc |-> "", text |-> text]
Raised(exc, text) == [kind |-> "raise", exc |-> exc, text |-> text]

\* AutoInstallationGen.__generator_factory: the class of the generator, "" when
\* the type is none of the known ones
__generator_factory(autoinstaller_type) ==
    CASE autoinstaller_type = "autoyast" -> "AutoYastGenerator"
      [] autoinstaller_type = "kickstart" -> "KickstartGenerator"
      [] autoinstaller_type = "preseed" -> "PreseedGenerator"
      [] autoinstaller_type = "cloud-init" -> "CloudInitGenerator"
      [] autoinstaller_type = "legacy" -> "LegacyGenerator"
      [] OTHER -> ""

\* AutoInstallationGen.generate_autoinstall: the document of the generator
AutoinstallOf(obj, autoinstaller_type) ==
    IF __generator_factory(autoinstaller_type) = ""
    THEN Raised("ValueError", "Unknown template type selected!")
    ELSE Returned("<" \o __generator_factory(autoinstaller_type) \o " document of "
                      \o obj.name \o ">")

\* generate_autoinstall_for_profile; profile is what api.find_profile returned
generate_autoinstall_for_profile(profile, autoinstaller_type) ==
    IF profile.found = "none" THEN Returned("# profile not found")
    ELSE IF profile.parent.type = "none"
    THEN Raised("CX", "profile " \o profile.name \o " references missing distro "
                          \o profile.distro)
    ELSE AutoinstallOf(profile, autoinstaller_type)

\* Mutant: the distro of the parent of a system is not looked at.
generate_autoinstall_for_system_no_image_test(system_obj, autoinstaller_type) ==
    IF system_obj.found = "none" THEN Returned("# system not found")
    ELSE IF system_obj.parent.type = "none"
    THEN Raised("CX", "system " \o system_obj.name \o " references missing profile "
                          \o system_obj.profile)
    ELSE AutoinstallOf(system_obj, autoinstaller_type)

\* generate_autoinstall_for_system; system_obj is what api.find_system returned
generate_autoinstall_for_system(system_obj, autoinstaller_type) ==
    IF system_obj.found = "none" THEN Returned("# system not found")
    ELSE IF system_obj.parent.type = "none"
    THEN Raised("CX", "system " \o system_obj.name \o " references missing profile "
                          \o system_obj.profile)
    ELSE IF system_obj.parent.parent = "none"
    THEN Returned("# image based systems do not have automatic installation files")
    ELSE AutoinstallOf(system_obj, autoinstaller_type)

\* What api.find_profile may return for a name: nothing, a profile whose distro
\* is there, a profile whose distro is missing.
NotFound(name) ==
    [found |-> "none", name |-> name, distro |-> "", profile |-> "",
     parent |-> [type |-> "none", parent |-> "none"]]
FoundProfiles(name) ==
    { [found |-> "one", name |-> name, distro |-> "d1", profile |-> "",
       parent |-> [type |-> t, parent |-> "none"]] : t \in {"distro", "none"} }

\* What api.find_system may return for a name: nothing, a system without parent,
\* a system of a profile with a distro, a system of an image, a system whose
\* profile has no distro.
FoundSystems(name) ==
    { [found |-> "one", name |-> name, distro |-> "", profile |-> "p1", parent |-> par] :
        par \in { [type |-> "none", parent |-> "none"],
                  [type |-> "profile", parent |-> "distro"],
                  [type |-> "profile", parent |-> "none"],
                  [type |-> "image", parent |-> "none"] } }

AutoinstallerTypes == {"", "autoyast", "kickstart", "preseed", "cloud-init", "legacy", "ks"}

InitDispatch ==
    /\ \E profile \in {NotFound("p1")} \cup FoundProfiles("p1"),
          system_obj \in {NotFound("s1")} \cup FoundSystems("s1") :
          autoinstallgen = [pc |-> "new", find_profile |-> profile,
                            find_system |-> system_obj,
                            call |-> [op |-> "", autoinstaller_type |-> ""],
                            result |-> Returned("")]
    /\ builder = NotBuilt /\ call = NoCall /\ target = NotBuilt
    /\ netboot = NotBuilt /\ standalone = NotBuilt /\ yast = NotBuilt
    /\ templar = NotBuilt /\ cheetahtemplate = NotBuilt

GenerateAutoinstallForProfile ==
    /\ autoinstallgen.pc = "new"
    /\ \E autoinstaller_type \in AutoinstallerTypes :
          autoinstallgen' =
              [autoinstallgen EXCEPT
                 !.pc = "called",
                 !.call = [op |-> "generate_autoinstall_for_profile",
                           autoinstaller_type |-> autoinstaller_type],
                 !.result = generate_autoinstall_for_profile(autoinstallgen.find_profile,
                                                             autoinstaller_type)]
    /\ UNCHANGED <<builderVars, netboot, standalone, yast, templar, cheetahtemplate>>

GenerateAutoinstallForSystem ==
    /\ autoinstallgen.pc = "new"
    /\ \E autoinstaller_type \in AutoinstallerTypes :
          autoinstallgen' =
              [autoinstallgen EXCEPT
                 !.pc = "called",
                 !.call = [op |-> "generate_autoinstall_for_system",
                           autoinstaller_type |-> autoinstaller_type],
                 !.result = generate_autoinstall_for_system(autoinstallgen.find_system,
                                                            autoinstaller_type)]
    /\ UNCHANGED <<builderVars, netboot, standalone, yast, templar, cheetahtemplate>>

NextDispatch == GenerateAutoinstallForProfile \/ GenerateAutoinstallForSystem

SpecDispatch == InitDispatch /\ [][NextDispatch]_vars

\* -------------------------------------------------- claims on the dispatch
ForProfile ==
    autoinstallgen.pc = "called" /\ autoinstallgen.call.op = "generate_autoinstall_for_profile"
ForSystem ==
    autoinstallgen.pc = "called" /\ autoinstallgen.call.op = "generate_autoinstall_for_system"

Sentinels ==
    { "# profile not found", "# system not found",
      "# image based systems do not have automatic installation files" }

ReturnedSentinel ==
    autoinstallgen.result.kind = "return" /\ autoinstallgen.result.text \in Sentinels

\* What the dispatch does for a name that is not found and for a profile
\* without distro.
NotFoundAndProfileCases ==
    /\ (ForProfile /\ autoinstallgen.find_profile.found = "none") =>
           autoinstallgen.result = Returned("# profile not found")
    /\ (ForSystem /\ autoinstallgen.find_system.found = "none") =>
           autoinstallgen.result = Returned("# system not found")
    /\ (ForProfile /\ autoinstallgen.find_profile.found = "one"
            /\ autoinstallgen.find_profile.parent.type = "none") =>
           autoinstallgen.result = Raised("CX", "profile p1 references missing distro d1")

\* C23 as stated: a profile without distro raises CX; a system without a profile
\* parent, or whose parent has no distro, does not raise and returns a sentinel;
\* a name that is not found returns a sentinel.
C23_SystemNeverRaises ==
    /\ NotFoundAndProfileCases
    /\ (ForSystem /\ autoinstallgen.find_system.found = "one"
            /\ (\/ autoinstallgen.find_system.parent.type = "none"
                \/ autoinstallgen.find_system.parent.parent = "none")) =>
           ReturnedSentinel

\* C23 amended: a profile without distro raises CX; a system without parent
\* raises CX naming the system and its profile; a system whose parent is there
\* but has no distro returns the image-based sentinel; a name that is not found
\* returns its sentinel.
C23_MissingParentDispatch ==
    /\ NotFoundAndProfileCases
    /\ (ForSystem /\ autoinstallgen.find_system.found = "one"
            /\ autoinstallgen.find_system.parent.type = "none") =>
           autoinstallgen.result = Raised("CX", "system s1 references missing profile p1")
    /\ (ForSystem /\ autoinstallgen.find_system.found = "one"
            /\ autoinstallgen.find_system.parent.type # "none"
            /\ autoinstallgen.find_system.parent.parent = "none") =>
           autoinstallgen.result =
               Returned("# image based systems do not have automatic installation files")

\* The dispatch for a system of an image has returned the sentinel.
C23_Witness ==
    /\ ForSystem
    /\ autoinstallgen.find_system.found = "one"
    /\ autoinstallgen.find_system.parent.type = "image"
    /\ autoinstallgen.call.autoinstaller_type = "kickstart"
    /\ ReturnedSentinel

\* --------------------------------------------------------------- Templar
\* Text is a sequence of atoms: a line break, a blank, a run of other characters,
\* an @@token@@ placeholder, a template variable, an expression whose rendering
\* fails, and the "#template=<family>" directive.
NL == [t |-> "nl", s |-> ""]
SP == [t |-> "sp", s |-> ""]
Lit(s) == [t |-> "lit", s |-> s]
At(token) == [t |-> "at", s |-> token]
Var(name) == [t |-> "var", s |-> name]
Bad == [t |-> "bad", s |-> ""]
Directive(family) == [t |-> "directive", s |-> family]

PyInt(s) == [t |-> "int", s |-> s, l |-> <<>>]
PyDict == [t |-> "dict", s |-> "", l |-> <<>>]

\* How many render calls are made on one Templar.
MaxRenders == 2

\* What a render call has given: a text, or an exception.
NoResult == [kind |-> "none", exc |-> "", text |-> <<>>]
RenderReturned(text) == [kind |-> "return", exc |-> "", text |-> text]
RenderRaised(exc) == [kind |-> "raise", exc |-> exc, text |-> <<>>]

\* Templar.__detect_template_type: the template type and the raw data it returns;
\* default_template_type is the setting, "" when it is not set
__detect_template_type(default_template_type, template_type, lines) ==
    IF template_type = "<None>" THEN [exc |-> "ValueError", template_type |-> "", raw_data |-> <<>>]
    ELSE IF template_type \notin {"default", "jinja2", "cheetah"}
    THEN [exc |-> "", template_type |-> "# ERROR: Unsupported template type selected!",
          raw_data |-> <<>>]
    ELSE IF lines # <<>> /\ lines[1].t = "directive"
    THEN [exc |-> "", template_type |-> lines[1].s,
          raw_data |-> IF Len(lines) > 1 /\ lines[2].t = "nl"
                       THEN SubSeq(lines, 3, Len(lines))
                       ELSE Tail(lines)]
    ELSE [exc |-> "",
          template_type |-> IF template_type = "default"
                            THEN (IF default_template_type # "" THEN default_template_type
                                  ELSE "cheetah")
                            ELSE template_type,
          raw_data |-> lines]

\* str(value) of a value of the search table
StrOfValue(value) == IF value.t \in {"str", "int"} THEN value.s ELSE "{...}"

\* The text a backend makes of an atom it renders without an exception; keeps is
\* whether it leaves a variable the search table does not hold in the text.
RenderedAtom(atom, search_table, keeps) ==
    IF atom.t = "var"
    THEN (IF DictHas(search_table, atom.s)
          THEN <<Lit(StrOfValue(DictVal(search_table, atom.s)))>>
          ELSE IF keeps THEN <<Lit("$" \o atom.s)>> ELSE <<>>)
    ELSE <<atom>>

RECURSIVE RenderedText(_, _, _)
RenderedText(raw_data, search_table, keeps) ==
    IF raw_data = <<>> THEN <<>>
    ELSE RenderedAtom(raw_data[1], search_table, keeps)
             \o RenderedText(Tail(raw_data), search_table, keeps)

\* The variables of a text that the search table does not hold.
Unresolved(raw_data, search_table) ==
    LET at == SelectSeq([i \in 1..Len(raw_data) |-> i],
                        LAMBDA i : raw_data[i].t = "var"
                                     /\ ~DictHas(search_table, raw_data[i].s))
    IN  [n \in 1..Len(at) |-> raw_data[at[n]].s]

HasBad(raw_data) == \E i \in 1..Len(raw_data) : raw_data[i].t = "bad"

\* CheetahTemplateProvider.render: the text, the provider's last_errors after it
\* and the search table, which gains template_universe.  An exception while the
\* template is rendered becomes CX and leaves last_errors as it was.
CheetahRender(last_errors, raw_data, search_table) ==
    IF HasBad(raw_data)
    THEN [exc |-> "CX", data_out |-> <<>>, last_errors |-> last_errors,
          search_table |-> DictSet(search_table, "template_universe", PyDict)]
    ELSE [exc |-> "", data_out |-> RenderedText(raw_data, search_table, TRUE),
          last_errors |-> Unresolved(raw_data, search_table),
          search_table |-> DictSet(search_table, "template_universe", PyDict)]

\* JinjaTemplateProvider.render: every exception is caught and logged, the text is
\* then the comment; the provider's last_errors is not assigned.
JinjaRender(last_errors, raw_data, search_table) ==
    IF HasBad(raw_data)
    THEN [exc |-> "",
          data_out |-> <<Lit("# EXCEPTION OCCURRED DURING JINJA2 TEMPLATE PROCESSING"), NL>>,
          last_errors |-> last_errors, search_table |-> search_table]
    ELSE [exc |-> "", data_out |-> RenderedText(raw_data, search_table, FALSE),
          last_errors |-> last_errors, search_table |-> search_table]

\* Templar.__enrich_http_server_to_search_table; the server setting is "cobbler"
__enrich_http_server_to_search_table(search_table) ==
    LET http_port == IF DictHas(search_table, "http_port")
                     THEN DictVal(search_table, "http_port") ELSE PyStr("80")
        server == IF DictHas(search_table, "server")
                  THEN StrOfValue(DictVal(search_table, "server")) ELSE "cobbler"
    IN  DictSet(search_table, "http_server",
                PyStr(IF http_port.s # "80" THEN server \o ":" \o http_port.s ELSE server))

\* The tokens of the placeholders of a text.
Placeholders(data_out) == {data_out[i].s : i \in {j \in 1..Len(data_out) : data_out[j].t = "at"}}

\* Templar.__replace_at_variables: search_table[token] raises KeyError for a token
\* it does not hold, str.replace raises TypeError for a value that is no string.
__replace_at_variables(data_out, search_table) ==
    IF \E token \in Placeholders(data_out) : ~DictHas(search_table, token)
    THEN [exc |-> "KeyError", data_out |-> data_out]
    ELSE IF \E token \in Placeholders(data_out) : DictVal(search_table, token).t # "str"
    THEN [exc |-> "TypeError", data_out |-> data_out]
    ELSE [exc |-> "",
          data_out |-> [i \in 1..Len(data_out) |->
                           IF data_out[i].t = "at"
                           THEN Lit(DictVal(search_table, data_out[i].s).s)
                           ELSE data_out[i]]]

\* str.lstrip(): every leading line break and blank goes
RECURSIVE lstrip(_)
lstrip(text) ==
    IF text # <<>> /\ text[1].t \in {"nl", "sp"} THEN lstrip(Tail(text)) ELSE text

\* Templar.render from "remove leading newlines" on
Normalized(data_out) ==
    IF data_out # <<>> /\ data_out[1].t = "nl" THEN lstrip(data_out) ELSE data_out

\* The render of the provider of a kind.
ProviderRender(kind, last_errors, raw_data, search_table) ==
    IF kind = "cheetah" THEN CheetahRender(last_errors, raw_data, search_table)
    ELSE JinjaRender(last_errors, raw_data, search_table)

\* Templar.render left by an exception
RenderFails(self, exc) == [self EXCEPT !.result = RenderRaised(exc)]

\* Templar.render from __replace_at_variables on: the leading line breaks go and
\* the text is saved when out_path is given
render_normalize(self, out_path, replaced) ==
    IF replaced.exc # "" THEN RenderFails(self, replaced.exc)
    ELSE [self EXCEPT
            !.result = RenderReturned(Normalized(replaced.data_out)),
            !.saved = IF out_path # "<None>"
                      THEN <<[path |-> out_path, text |-> Normalized(replaced.data_out)]>>
                      ELSE <<>>]

\* Templar.render from the return of template_provider.render on: made is what
\* the provider returned and left in its last_errors
render_errors(self, kind, out_path, made) ==
    IF made.exc # "" THEN RenderFails(self, made.exc)
    ELSE render_normalize(
             [self EXCEPT !.last_errors = IF Len(made.last_errors) > 0
                                          THEN made.last_errors ELSE @,
                          !.provider_errors[kind] = IF Len(made.last_errors) > 0
                                                    THEN <<>> ELSE made.last_errors],
             out_path,
             __replace_at_variables(made.data_out,
                                    __enrich_http_server_to_search_table(made.search_table)))

\* Templar.render from the return of __detect_template_type on
render_provider(self, search_table, out_path, detected) ==
    IF detected.exc # "" THEN RenderFails(self, detected.exc)
    ELSE IF ~DictHas(self.providers, detected.template_type)
    THEN RenderFails([self EXCEPT !.detected = detected.template_type], "KeyError")
    ELSE render_errors(
             [self EXCEPT !.detected = detected.template_type,
                          !.raw_data = detected.raw_data],
             DictVal(self.providers, detected.template_type), out_path,
             ProviderRender(DictVal(self.providers, detected.template_type),
                            self.provider_errors[DictVal(self.providers,
                                                         detected.template_type)],
                            detected.raw_data, search_table))

\* Templar.render
render(self, data_input, search_table, out_path, template_type) ==
    render_provider(
        [self EXCEPT !.renders = @ + 1,
                     !.call = [data_input |-> data_input, search_table |-> search_table,
                               out_path |-> out_path, template_type |-> template_type],
                     !.detected = "", !.raw_data = <<>>, !.saved = <<>>],
        search_table, out_path,
        __detect_template_type(self.default_template_type, template_type, data_input))

\* ------------------------------------------------- inputs of the Templar
\* The names under which the provider packages expose their provider classes to
\* inspect.getmembers: the class names of templates/cheetah and templates/jinja,
\* and packages that expose the class under the name of the template type too.
ProviderMembers ==
    { <<[k |-> "CheetahTemplateProvider", val |-> "cheetah"],
        [k |-> "JinjaTemplateProvider", val |-> "jinja"]>>,
      <<[k |-> "CheetahTemplateProvider", val |-> "cheetah"],
        [k |-> "JinjaTemplateProvider", val |-> "jinja"],
        [k |-> "cheetah", val |-> "cheetah"], [k |-> "jinja2", val |-> "jinja"]>> }

Bodies ==
    { <<Lit("a")>>, <<NL, Lit("a")>>, <<NL, NL, SP, Lit("a")>>, <<SP, Lit("a")>>,
      <<At("server"), SP, At("server")>>, <<At("http_port")>>, <<At("nokey")>>,
      <<Var("server")>>, <<Var("x")>>, <<Bad>> }

DataInputs ==
    Bodies
    \cup { <<Directive(family), NL>> \o body :
               family \in {"cheetah", "jinja2"}, body \in {<<Lit("a")>>, <<Var("x")>>} }
    \cup { <<Directive("mako"), NL, Lit("a")>> }

SearchTables ==
    { <<[k |-> "server", val |-> PyStr("10.0.0.1")], [k |-> "http_port", val |-> PyStr("80")]>>,
      <<[k |-> "server", val |-> PyStr("10.0.0.1")], [k |-> "http_port", val |-> PyInt("8080")]>> }

TemplateTypes == {"<None>", "default", "cheetah", "jinja2", "jinja"}

NoRender == [data_input |-> <<>>, search_table |-> <<>>, out_path |-> "<None>",
             template_type |-> ""]

\* Templar.__init__; default_template_type is the setting of the server
InitTemplar ==
    /\ \E default_template_type \in {"", "jinja2"} :
          templar = [pc |-> "new", default_template_type |-> default_template_type,
                     providers |-> <<>>, last_errors |-> <<>>,
                     provider_errors |-> [cheetah |-> <<>>, jinja |-> <<>>],
                     renders |-> 0, call |-> NoRender, detected |-> "", raw_data |-> <<>>,
                     saved |-> <<>>, result |-> NoResult]
    /\ builder = NotBuilt /\ call = NoCall /\ target = NotBuilt
    /\ netboot = NotBuilt /\ standalone = NotBuilt /\ yast = NotBuilt
    /\ autoinstallgen = NotBuilt /\ cheetahtemplate = NotBuilt

RECURSIVE Registered(_, _)
\* self.__loaded_template_providers[element[0]] = element[1](self.api), for each
Registered(providers, members) ==
    IF members = <<>> THEN providers
    ELSE Registered(DictSet(providers, members[1].k, members[1].val), Tail(members))

\* Templar.load_template_providers
LoadTemplateProviders ==
    /\ templar.pc = "new"
    /\ \E members \in ProviderMembers :
          templar' = [templar EXCEPT
                        !.providers = Registered(@, members),
                        !.provider_errors = [cheetah |-> <<>>, jinja |-> <<>>]]
    /\ UNCHANGED <<builderVars, netboot, standalone, yast, autoinstallgen, cheetahtemplate>>

\* Templar.render
TemplarRender ==
    /\ templar.pc = "new" /\ templar.renders < MaxRenders
    /\ \E data_input \in DataInputs, search_table \in SearchTables,
          out_path \in {"<None>", "/out/ks.cfg"}, template_type \in TemplateTypes :
          templar' = render(templar, data_input, search_table, out_path, template_type)
    /\ UNCHANGED <<builderVars, netboot, standalone, yast, autoinstallgen, cheetahtemplate>>

NextTemplar == LoadTemplateProviders \/ TemplarRender

SpecTemplar == InitTemplar /\ [][NextTemplar]_vars

\* -------------------------------------------------- claims on the Templar
Rendered == templar.pc # "not built" /\ templar.renders > 0

\* The family the first line of the data of the last call names, "" when the
\* data does not start with the directive.
DirectiveOf(data_input) ==
    IF data_input # <<>> /\ data_input[1].t = "directive" THEN data_input[1].s ELSE ""

\* C24: the family a render call uses is the explicitly requested one, else the
\* one the "#template=" first line names, else default_template_type, else
\* cheetah, and the text handed to the backend never starts with the directive.
C24_ExplicitFamilyFirst ==
    (Rendered /\ templar.call.template_type # "<None>") =>
        /\ templar.detected =
               IF templar.call.template_type # "default" THEN templar.call.template_type
               ELSE IF DirectiveOf(templar.call.data_input) # ""
               THEN DirectiveOf(templar.call.data_input)
               ELSE IF templar.default_template_type # ""
               THEN templar.default_template_type
               ELSE "cheetah"
        /\ DirectiveOf(templar.raw_data) = ""

\* The provider of the last call was found, and what its render gave.
ProviderFound == Rendered /\ DictHas(templar.providers, templar.detected)
ProviderKind == DictVal(templar.providers, templar.detected)
BackendOut == ProviderRender(ProviderKind, <<>>, templar.raw_data, templar.call.search_table)

\* The context of the last call when the placeholders are replaced.
Context == __enrich_http_server_to_search_table(BackendOut.search_table)

\* The text with every placeholder replaced by the value the context holds.
Substituted(data_out, search_table) ==
    [i \in 1..Len(data_out) |->
        IF data_out[i].t = "at"
        THEN Lit(StrOfValue(DictVal(search_table, data_out[i].s)))
        ELSE data_out[i]]

BackendReported ==
    /\ ProviderFound
    /\ \/ HasBad(templar.raw_data)
       \/ /\ ProviderKind = "cheetah"
          /\ Unresolved(templar.raw_data, templar.call.search_table) # <<>>

NamesPassed(i) == {netboot.copied[j].dist : j \in 1..i}

\* make_shorter has the map and the counter in step, the k-th entry of the map
\* has the identifier str(k), and no name has two entries.
ShortNameMap ==
    /\ netboot.distctr = Len(netboot.distmap)
    /\ \A k \in 1..Len(netboot.distmap) : netboot.distmap[k].val = ToString(k)
    /\ \A i, j \in 1..Len(netboot.distmap) :
          netboot.distmap[i].k = netboot.distmap[j].k => i = j

\* The call in which the distro of call i was passed for the first time.
FirstPassed(i) ==
    CHOOSE j \in 1..i :
        /\ netboot.copied[j].dist = netboot.copied[i].dist
        /\ \A h \in 1..(j - 1) : netboot.copied[h].dist # netboot.copied[i].dist

\* Every call returned the number its name has among the distinct names in the
\* order they were passed, so a name passed again got its identifier again and
\* two names never got the same.
ShortNamesReturned ==
    \A i \in 1..Len(netboot.copied) :
        /\ netboot.copied[i].distname = ToString(Cardinality(NamesPassed(FirstPassed(i))))
        /\ netboot.copied[i].distname = DictVal(netboot.distmap, netboot.copied[i].dist)
        /\ \A j \in 1..Len(netboot.copied) :
              (netboot.copied[i].distname = netboot.copied[j].distname)
                  <=> (netboot.copied[i].dist = netboot.copied[j].dist)

\* A step leaves the entries of the map alone and never lowers the counter; the
\* counter moves only together with a new entry.
ShortNameStep ==
    /\ netboot'.distctr >= netboot.distctr
    /\ Len(netboot'.distmap) >= Len(netboot.distmap)
    /\ \A k \in 1..Len(netboot.distmap) : netboot'.distmap[k] = netboot.distmap[k]
    /\ (netboot'.distctr # netboot.distctr) =>
           /\ netboot'.distctr = netboot.distctr + 1
           /\ Len(netboot'.distmap) = Len(netboot.distmap) + 1

MaxSnippetCalls == 2

\* The variables a search list can hold, with the value each has when present.
SnippetVars ==
    <<[k |-> "autoinstall_snippets_dir", val |-> "/snippets"],
      [k |-> "system_name", val |-> "s1"],
      [k |-> "profile_name", val |-> "p1"],
      [k |-> "distro_name", val |-> "d1"]>>

\* The search lists: every choice of the variables that are present.
SearchLists ==
    {SelectSeq(SnippetVars, LAMBDA e : e.k \in present)
       : present \in SUBSET DictKeys(SnippetVars)}

\* The snippet names asked for.
SnippetNames == {"log_ks_post", "preseed_early_default"}

\* A path that does not exist: utils.read_file_contents raises FileNotFoundError.
NoFile == "<FileNotFoundError>"

\* The paths of the snippet tree and what a file at one of them can hold.
SnippetPaths ==
    {"/snippets/per_system/log_ks_post/s1", "/snippets/per_profile/log_ks_post/p1",
     "/snippets/per_distro/log_ks_post/d1", "/snippets/log_ks_post"}
FileContents(path) == {NoFile, "", "text of " \o path}

\* The file trees: every path is missing, empty or has its text.
FileTrees ==
    {files \in [SnippetPaths -> {NoFile, ""} \cup {"text of " \o path : path \in SnippetPaths}] :
        \A path \in SnippetPaths : files[path] \in FileContents(path)}

\* utils.read_file_contents(full_path, fetch_if_remote=True) for a local path
read_file_contents(files, full_path) ==
    IF full_path \in DOMAIN files THEN files[full_path] ELSE NoFile

\* self.varExists(name) and self.getVar(name)
varExists(self, name) == DictHas(self.searchList, name)
getVar(self, name) == DictVal(self.searchList, name)

\* What a call has given: a string, None, or an exception.
SnippetNone == [kind |-> "return", exc |-> "", text |-> "", none |-> TRUE]
SnippetText(text) == [kind |-> "return", exc |-> "", text |-> text, none |-> FALSE]
SnippetRaised(exc) == [kind |-> "raise", exc |-> exc, text |-> "", none |-> FALSE]

\* read_snippet: the path of the snippet of one class
PerClassPath(self, snippet_class, file) ==
    getVar(self, "autoinstall_snippets_dir") \o "/per_" \o snippet_class \o "/" \o file
        \o "/" \o getVar(self, snippet_class \o "_name")

\* read_snippet: the last try, the snippet of the general directory
GeneralSnippet(self, file) ==
    IF read_file_contents(self.files,
                          getVar(self, "autoinstall_snippets_dir") \o "/" \o file) = NoFile
    THEN SnippetNone
    ELSE SnippetText("#errorCatcher ListErrors\n"
                     \o read_file_contents(self.files,
                            getVar(self, "autoinstall_snippets_dir") \o "/" \o file))

RECURSIVE PerClassSnippet(_, _, _)
\* read_snippet: the loop over the snippet classes, then the general snippet
PerClassSnippet(self, file, classes) ==
    IF classes = <<>> THEN GeneralSnippet(self, file)
    ELSE IF /\ varExists(self, classes[1] \o "_name")
            /\ read_file_contents(self.files, PerClassPath(self, classes[1], file)) # NoFile
         THEN SnippetText(read_file_contents(self.files,
                                             PerClassPath(self, classes[1], file)))
         ELSE PerClassSnippet(self, file, Tail(classes))

\* read_snippet that looks into the general directory first.
read_snippet_general_first(self, file) ==
    IF ~varExists(self, "autoinstall_snippets_dir") THEN SnippetRaised("AttributeError")
    ELSE IF GeneralSnippet(self, file) # SnippetNone THEN GeneralSnippet(self, file)
    ELSE PerClassSnippet(self, file, <<"system", "profile", "distro">>)

\* CobblerCheetahTemplate.read_snippet
read_snippet(self, file) ==
    IF ~varExists(self, "autoinstall_snippets_dir") THEN SnippetRaised("AttributeError")
    ELSE PerClassSnippet(self, file, <<"system", "profile", "distro">>)

\* The text Cheetah gives for '#include source=$snippet'; the rendering of the
\* included source is left to the library.
Included(snippet) == "<include " \o snippet \o ">"

\* CobblerCheetahTemplate.SNIPPET: the builtin template calls read_snippet and
\* includes a snippet that is true, or yields the error comment.
SNIPPET(self, file) ==
    IF read_snippet(self, file).kind = "raise" THEN read_snippet(self, file)
    ELSE IF read_snippet(self, file).none \/ read_snippet(self, file).text = ""
         THEN SnippetText("# Error: no snippet data for " \o file \o "\n")
         ELSE SnippetText(Included(read_snippet(self, file).text))

NoSnippetCall == [op |-> "new", file |-> ""]

\* A template object with its search list, and the snippet files on disk.
InitSnippet ==
    /\ \E searchList \in SearchLists, files \in FileTrees :
          cheetahtemplate = [pc |-> "new", searchList |-> searchList, files |-> files,
                      calls |-> 0, call |-> NoSnippetCall, result |-> SnippetNone]
    /\ builder = NotBuilt /\ call = NoCall /\ target = NotBuilt
    /\ netboot = NotBuilt /\ standalone = NotBuilt /\ yast = NotBuilt
    /\ autoinstallgen = NotBuilt /\ templar = NotBuilt

\* A call of read_snippet
ReadSnippet ==
    /\ cheetahtemplate.pc = "new" /\ cheetahtemplate.calls < MaxSnippetCalls
    /\ \E file \in SnippetNames :
          cheetahtemplate' = [cheetahtemplate EXCEPT
                         !.calls = @ + 1,
                         !.call = [op |-> "read_snippet", file |-> file],
                         !.result = read_snippet(cheetahtemplate, file)]
    /\ UNCHANGED <<builderVars, netboot, standalone, yast, autoinstallgen, templar>>

\* A call of the SNIPPET builtin
Snippet ==
    /\ cheetahtemplate.pc = "new" /\ cheetahtemplate.calls < MaxSnippetCalls
    /\ \E file \in SnippetNames :
          cheetahtemplate' = [cheetahtemplate EXCEPT
                         !.calls = @ + 1,
                         !.call = [op |-> "SNIPPET", file |-> file],
                         !.result = SNIPPET(cheetahtemplate, file)]
    /\ UNCHANGED <<builderVars, netboot, standalone, yast, autoinstallgen, templar>>

NextSnippet == ReadSnippet \/ Snippet

SpecSnippet == InitSnippet /\ [][NextSnippet]_vars

\* ------------------------------------------ claims on the snippet resolution

\* The directory of the snippets, of the object that has one.
SnippetsDir == DictVal(cheetahtemplate.searchList, "autoinstall_snippets_dir")

\* The places a snippet is looked for, in the order system, profile, distro,
\* general; a class whose name variable is not in the search list has no place.
SnippetPlaces(file) ==
    SelectSeq(<<[var |-> "system_name", dir |-> "per_system"],
                [var |-> "profile_name", dir |-> "per_profile"],
                [var |-> "distro_name", dir |-> "per_distro"]>>,
              LAMBDA place : DictHas(cheetahtemplate.searchList, place.var))

\* The file of a place, and the file of the general directory.
PlaceFile(place, file) ==
    SnippetsDir \o "/" \o place.dir \o "/" \o file \o "/"
        \o DictVal(cheetahtemplate.searchList, place.var)
GeneralFile(file) == SnippetsDir \o "/" \o file

\* A file is on disk.
OnDisk(path) == path \in DOMAIN cheetahtemplate.files /\ cheetahtemplate.files[path] # NoFile

\* The files of a snippet that exist, in search order.
FoundFiles(file) ==
    SelectSeq([i \in 1..Len(SnippetPlaces(file)) |-> PlaceFile(SnippetPlaces(file)[i], file)]
                 \o <<GeneralFile(file)>>,
              OnDisk)

\* The last call was a call of op on an object with or without the directory.
SnippetCalled(op, with_dir) ==
    /\ cheetahtemplate.pc # "not built" /\ cheetahtemplate.call.op = op
    /\ DictHas(cheetahtemplate.searchList, "autoinstall_snippets_dir") = with_dir

\* The error handling of the two calls: AttributeError exactly without the
\* directory, None when no file exists, and the error comment of SNIPPET then.
SnippetErrors ==
    /\ cheetahtemplate.pc # "not built" /\ cheetahtemplate.call.op # "new" =>
          (cheetahtemplate.result.kind = "raise")
              <=> ~DictHas(cheetahtemplate.searchList, "autoinstall_snippets_dir")
    /\ cheetahtemplate.pc # "not built" /\ cheetahtemplate.result.kind = "raise" =>
          cheetahtemplate.result.exc = "AttributeError"
    /\ SnippetCalled("read_snippet", TRUE) =>
          (cheetahtemplate.result.none <=> FoundFiles(cheetahtemplate.call.file) = <<>>)
    /\ SnippetCalled("SNIPPET", TRUE) /\ FoundFiles(cheetahtemplate.call.file) = <<>> =>
          cheetahtemplate.result.text
              = "# Error: no snippet data for " \o cheetahtemplate.call.file \o "\n"

\* C25 as stated: read_snippet returns the content of the first existing file of
\* the search order per_system, per_profile, per_distro, general.
C25_FirstFileContent ==
    /\ SnippetErrors
    /\ SnippetCalled("read_snippet", TRUE) /\ FoundFiles(cheetahtemplate.call.file) # <<>> =>
          cheetahtemplate.result.text
              = cheetahtemplate.files[FoundFiles(cheetahtemplate.call.file)[1]]

\* C25: read_snippet returns the first existing file of the search order
\* per_system, per_profile, per_distro (each only with its name variable),
\* general: the content of a per-class file as it is, the content of the general
\* file behind the line '#errorCatcher ListErrors'; None when no file exists, the
\* error comment from SNIPPET then, AttributeError exactly without the directory.
C25_FirstFileWins ==
    /\ SnippetErrors
    /\ SnippetCalled("read_snippet", TRUE) /\ FoundFiles(cheetahtemplate.call.file) # <<>> =>
          cheetahtemplate.result.text
              = IF FoundFiles(cheetahtemplate.call.file)[1]
                      = GeneralFile(cheetahtemplate.call.file)
                THEN "#errorCatcher ListErrors\n"
                         \o cheetahtemplate.files[GeneralFile(cheetahtemplate.call.file)]
                ELSE cheetahtemplate.files[FoundFiles(cheetahtemplate.call.file)[1]]

\* read_snippet was called for a snippet with a per_system file but no
\* system_name, a profile_name without a per_profile file, and both a per_distro
\* and a general file: the per_distro file was returned.
C25_Witness ==
    /\ SnippetCalled("read_snippet", TRUE) /\ cheetahtemplate.call.file = "log_ks_post"
    /\ DictKeys(cheetahtemplate.searchList)
          = {"autoinstall_snippets_dir", "profile_name", "distro_name"}
    /\ OnDisk("/snippets/per_system/log_ks_post/s1")
    /\ ~OnDisk("/snippets/per_profile/log_ks_post/p1")
    /\ OnDisk("/snippets/per_distro/log_ks_post/d1") /\ OnDisk("/snippets/log_ks_post")
    /\ cheetahtemplate.result.text = "text of /snippets/per_distro/log_ks_post/d1"

====
